---- MODULE Spec2Model ----
(***************************************************************************)
(* Notification fan-out, cache invalidation, presence and escalation of    *)
(* the dws-be backend, as a state machine.                                 *)
(*                                                                         *)
(* The store rows, the cache entries, the presence map and the socket      *)
(* rooms are the state; every service method is an action.  A handler      *)
(* that is run to completion is one action; the handlers whose awaits      *)
(* matter (create, findByUser, getUnreadCount) also exist step by step,    *)
(* one action per await, in the interleaved specification.                 *)
(***************************************************************************)
EXTENDS Naturals, Integers, Sequences, FiniteSets, TLC

(***************************************************************************)
(* Bounds of the model.                                                    *)
(***************************************************************************)
\* notifications ever created in one behaviour of the store specifications
MaxNotifs == 2
\* sockets that may connect to the gateway
MaxSockets == 4
\* largest page number a reader asks for
MaxPage == 1

(***************************************************************************)
(* The users table: ids, roles (fixed) and the order findMany returns.     *)
(***************************************************************************)
AdminIds == {"admin1", "admin2"}
MemberIds == {"u1", "u2"}
UserIds == AdminIds \cup MemberIds
UserOrder == <<"admin1", "admin2", "u1", "u2">>

Role(u) == IF u \in AdminIds THEN "ADMIN" ELSE "USER"

\* Prisma enum NotificationType, as far as the services use it
NotificationTypes ==
    {"REVIEW_REPLY", "REVIEW_LIKE", "ADMIN_MESSAGE", "PRODUCT_LIKE",
     "PRODUCT_COMMENT", "PRODUCT_SAVE", "WARNING", "ACCOUNT_LOCKED", "SYSTEM"}

(***************************************************************************)
(* Metadata: a JSON object (a finite map from keys to values) or null.     *)
(* kv is the object, null says that the column holds null.                 *)
(***************************************************************************)
NullMeta == [null |-> TRUE, kv |-> <<>>]
Meta(f) == [null |-> FALSE, kv |-> f]

\* meta[key] of JavaScript: undefined for a key the object does not have
Undefined == "undefined"
MetaGet(meta, key) == IF key \in DOMAIN meta.kv THEN meta.kv[key] ELSE Undefined

\* dto.metadata || null : an absent metadata is stored as null
MetaOrNull(m) == IF m.null THEN NullMeta ELSE m

(***************************************************************************)
(* Sequences helpers.                                                      *)
(***************************************************************************)
Min(a, b) == IF a < b THEN a ELSE b

RECURSIVE SeqOfSet(_)
\* the ids of a set in descending order
SeqOfSet(S) ==
    IF S = {} THEN <<>>
    ELSE LET m == CHOOSE x \in S : \A y \in S : y <= x
         IN <<m>> \o SeqOfSet(S \ {m})

Reverse(s) == [i \in 1..Len(s) |-> s[Len(s) + 1 - i]]

Range(s) == {s[i] : i \in 1..Len(s)}

(***************************************************************************)
(* State.                                                                  *)
(***************************************************************************)
VARIABLES
    notifications,   \* the notification table: a set of rows
    nextId,          \* source of row ids and creation times (strictly increasing)
    cache,           \* the cache manager's entries: listings and unread counts
    userStatus,      \* users.status : NORMAL or BANNED
    faults,          \* which collaborators may fail in this behaviour
    sockets,         \* each socket: connected, client.userId, joined rooms
    userSockets,     \* EventsGateway.userSockets : userId -> set of socket ids
    effects,         \* what the last handler did, in order (writes, invalidations, emits)
    received,        \* what each socket received from the last handler, in order
    last,            \* the last handler: its name, arguments and result
    calls,           \* handlers in flight, one step per await
    productReaction, \* the product_reaction table: (productId, userId) rows
    reviewLike,      \* the review_like table: (reviewId, userId) -> isLike
    devToolsLog,     \* the dev_tools_log table: today's entries per user
    savedProduct,    \* the saved_product table: (productId, userId) rows
    reviews,         \* the review table: id -> row
    nextReview,      \* how many review ids have been handed out
    olderLog,        \* the dev_tools_log entries of earlier days, per user
    importJobs       \* the importJobs map with each job's position

\* the tables and calls that NotificationService, UserService and the gateway
\* never touch
tables == <<savedProduct, reviews, nextReview, olderLog, importJobs>>

domainVars == <<calls, productReaction, reviewLike, devToolsLog, tables>>

vars == <<notifications, nextId, cache, userStatus, faults, sockets,
          userSockets, effects, received, last, domainVars>>

Sockets == 1..MaxSockets

(***************************************************************************)
(* Rooms and effects.                                                      *)
(***************************************************************************)
\* one room for every user
UserRoom_Shared(userId) == <<"user", "">>

UserRoom(userId) == <<"user", userId>>
ProductRoom(productId) == <<"product", productId>>

PersistEff(id) ==
    [kind |-> "persist", event |-> "", room |-> <<"", "">>, ids |-> <<id>>, dto |-> <<>>]
RemoveEff(ids) ==
    [kind |-> "remove", event |-> "", room |-> <<"", "">>, ids |-> ids, dto |-> <<>>]
InvalidateEff(userId) ==
    [kind |-> "invalidate", event |-> "", room |-> UserRoom(userId), ids |-> <<>>, dto |-> <<>>]
EmitEff(room, event, ids, dto) ==
    [kind |-> "emit", event |-> event, room |-> room, ids |-> ids, dto |-> dto]

\* server.to(room).emit(...): every connected socket that joined the room gets it
RoomMembers(socks, room) ==
    {s \in DOMAIN socks : socks[s].connected /\ room \in socks[s].rooms}

IsEmit(e) == e.kind = "emit"

\* what socket s receives of a handler's effects
Delivered(socks, effs, s) ==
    SelectSeq(effs, LAMBDA e : IsEmit(e) /\ s \in RoomMembers(socks, e.room))

Deliveries(socks, effs) == [s \in DOMAIN socks |-> Delivered(socks, effs, s)]

(***************************************************************************)
(* EventsGateway emitters for user rooms.                                  *)
(***************************************************************************)
\* the emitters address the room without looking at the presence map: an
\* emit to a room nobody joined reaches nobody and returns normally
PushStatus_NeedsMember(socks, room) ==
    IF RoomMembers(socks, room) = {} THEN "Internal" ELSE "ok"

PushStatus(socks, room) == "ok"

emitNotification(userId, notification) ==
    EmitEff(UserRoom(userId), "notification", <<notification.id>>, <<notification>>)

emitAccountBanned(userId) ==
    EmitEff(UserRoom(userId), "accountBanned", <<>>, <<>>)

emitNotificationDeleted(userId, notificationIds) ==
    EmitEff(UserRoom(userId), "notificationDeleted", notificationIds, <<>>)

(***************************************************************************)
(* CacheService over the cache manager.                                    *)
(***************************************************************************)
EmptyCache == [list |-> <<>>, unread |-> <<>>]

\* a listing key that leaves out the user
ListKey_NoUser(userId, page, limit) == <<"", page, limit>>

ListKey(userId, page, limit) == <<userId, page, limit>>

Put(f, k, v) == [x \in DOMAIN f \cup {k} |-> IF x = k THEN v ELSE f[x]]
Drop(f, k) == [x \in DOMAIN f \ {k} |-> f[x]]

\* a delPattern that removes the entries whose key starts with the pattern
delPattern_Matching(c, pattern, clearOk) ==
    IF clearOk /\ Len(pattern) = 2
    THEN [list |-> [k \in {x \in DOMAIN c.list : x[1] # pattern[2]} |-> c.list[k]],
          unread |-> [u \in DOMAIN c.unread \ {pattern[2]} |-> c.unread[u]]]
    ELSE c

\* delPattern: clear() of the whole cache whatever the pattern; a failing
\* clear is caught and the cache stays as it was
delPattern(c, pattern, clearOk) == IF clearOk THEN EmptyCache ELSE c

delUnread(c, userId) == [c EXCEPT !.unread = Drop(c.unread, userId)]

setList(c, key, value) == [c EXCEPT !.list = Put(c.list, key, value)]
setUnread(c, userId, count) == [c EXCEPT !.unread = Put(c.unread, userId, count)]

\* an invalidation that leaves the cache as it is
invalidateCache_Nothing(c, userId, clearOk) == c

\* NotificationService.invalidateCache
invalidateCache_KeepsListings(c, userId, clearOk) == delUnread(c, userId)

invalidateCache(c, userId, clearOk) ==
    delUnread(delPattern(c, <<"notifications:user", userId>>, clearOk), userId)

(***************************************************************************)
(* The notification table and its queries.                                 *)
(***************************************************************************)
NewRow(id, dto) ==
    [id |-> id, userId |-> dto.userId, type |-> dto.type, title |-> dto.title,
     content |-> dto.content, metadata |-> MetaOrNull(dto.metadata),
     isRead |-> FALSE, createdAt |-> id]

toResponseDto(n) ==
    [id |-> n.id, userId |-> n.userId, type |-> n.type, title |-> n.title,
     content |-> n.content, isRead |-> n.isRead, metadata |-> n.metadata,
     createdAt |-> n.createdAt]

Dto(userId, type, title, content, metadata) ==
    [userId |-> userId, type |-> type, title |-> title, content |-> content,
     metadata |-> metadata]

RowAt(rows, t) == CHOOSE n \in rows : n.createdAt = t

\* findMany({ orderBy: { createdAt: 'desc' } })
OrderByCreatedAtDesc(rows) ==
    LET times == SeqOfSet({n.createdAt : n \in rows})
    IN [i \in 1..Len(times) |-> RowAt(rows, times[i])]

\* findMany without orderBy: rows in insertion order
InInsertionOrder(rows) == Reverse(OrderByCreatedAtDesc(rows))

\* a skip that starts one row early
SkipTake_OneEarly(s, skip, take) ==
    SubSeq(s, Min(skip, Len(s)) + (IF skip = 0 THEN 1 ELSE 0),
           Min(skip + take, Len(s)))

\* skip, take of findMany
SkipTake(s, skip, take) == SubSeq(s, skip + 1, Min(skip + take, Len(s)))

Ceil(a, b) == (a + b - 1) \div b

\* findMany({ where: { userId }, orderBy: { createdAt: 'desc' }, skip, take })
FoundRows(rows, userId, page, limit) ==
    SkipTake(OrderByCreatedAtDesc({n \in rows : n.userId = userId}),
             (page - 1) * limit, limit)

\* count({ where: { userId } })
CountOf(rows, userId) == Cardinality({n \in rows : n.userId = userId})

\* the PaginatedNotificationsDto of findByUser
BuildListing(found, total, page, limit) ==
    [data |-> [i \in 1..Len(found) |-> toResponseDto(found[i])],
     total |-> total, page |-> page, limit |-> limit,
     totalPages |-> Ceil(total, limit), hasMore |-> page * limit < total]

\* the miss path of findByUser when nothing runs between its two queries
ListingOf(rows, userId, page, limit) ==
    BuildListing(FoundRows(rows, userId, page, limit), CountOf(rows, userId),
                 page, limit)

\* the miss path of getUnreadCount
UnreadOf(rows, userId) ==
    Cardinality({n \in rows : n.userId = userId /\ ~n.isRead})

\* what findByUser returns in cache state c
findByUserResult(rows, c, userId, page, limit) ==
    IF ListKey(userId, page, limit) \in DOMAIN c.list
    THEN c.list[ListKey(userId, page, limit)]
    ELSE ListingOf(rows, userId, page, limit)

\* what getUnreadCount returns in cache state c
getUnreadCountResult(rows, c, userId) ==
    IF userId \in DOMAIN c.unread THEN c.unread[userId] ELSE UnreadOf(rows, userId)

(***************************************************************************)
(* deleteByMetadata: the metadata match and the grouping by owner.         *)
(***************************************************************************)
matchesMetadata_NoNullCheck(meta, filter) ==
    \A key \in DOMAIN filter : MetaGet(meta, key) = filter[key]

\* Object.entries(metadata).every(([key, value]) => meta[key] === value),
\* false for a row whose metadata is null
matchesMetadata(meta, filter) ==
    /\ ~meta.null
    /\ \A key \in DOMAIN filter : MetaGet(meta, key) = filter[key]

\* findMany({ where: { type } }).filter(...)
ToDelete(rows, type, filter) ==
    SelectSeq(InInsertionOrder({n \in rows : n.type = type}),
              LAMBDA n : matchesMetadata(n.metadata, filter))

IdsOf(s) == [i \in 1..Len(s) |-> s[i].id]

\* deleteMany({ where: { id: { in: toDelete.map((n) => n.id) } } })
DeletedRows_FirstOnly(toDelete) ==
    IF toDelete = <<>> THEN {} ELSE {toDelete[1]}

DeletedRows(toDelete) == Range(toDelete)

\* one group per row instead of one per owner
GroupByUser_PerRow(rows) ==
    [i \in 1..Len(rows) |-> [userId |-> rows[i].userId, ids |-> <<rows[i].id>>]]

RECURSIVE GroupByUser(_)
\* the Map userId -> ids of the rows to delete, in insertion order of its keys
GroupByUser(rows) ==
    IF rows = <<>> THEN <<>>
    ELSE LET u == rows[1].userId
             mine == SelectSeq(rows, LAMBDA n : n.userId = u)
             rest == SelectSeq(rows, LAMBDA n : n.userId # u)
         IN <<[userId |-> u, ids |-> IdsOf(mine)]>> \o GroupByUser(rest)

RECURSIVE DeletedEffects(_)
\* for (const [userId, notificationIds] of userNotifications):
\* invalidateCache(userId), then emitNotificationDeleted(userId, ids)
DeletedEffects(groups) ==
    IF groups = <<>> THEN <<>>
    ELSE <<InvalidateEff(groups[1].userId),
           emitNotificationDeleted(groups[1].userId, groups[1].ids)>>
         \o DeletedEffects(Tail(groups))

\* deleteByMetadata without its invalidation
InvalidateAll_Nothing(c, groups, clearOk) == c

RECURSIVE InvalidateAll(_, _, _)
\* the cache after invalidateCache for every group
InvalidateAll(c, groups, clearOk) ==
    IF groups = <<>> THEN c
    ELSE InvalidateAll(invalidateCache(c, groups[1].userId, clearOk),
                       Tail(groups), clearOk)

(***************************************************************************)
(* The record of the last handler.                                         *)
(***************************************************************************)
NoLast ==
    [op |-> "none", userId |-> "", id |-> 0, type |-> "", filter |-> <<>>,
     page |-> 0, limit |-> 0, all |-> FALSE, status |-> "ok",
     cached |-> FALSE, again |-> FALSE, existing |-> FALSE,
     result |-> <<>>, failures |-> [store |-> 0, del |-> 0]]

\* the user has an unread count and a listing in the cache
HasCached(c, userId) ==
    /\ userId \in DOMAIN c.unread
    /\ \E k \in DOMAIN c.list : k[1] = userId

Done(op, userId, status) ==
    [NoLast EXCEPT !.op = op, !.userId = userId, !.status = status]

ClearOutcomes == IF "clear" \in faults THEN BOOLEAN ELSE {TRUE}

Quiet == /\ effects' = <<>>
         /\ received' = Deliveries(sockets, <<>>)

Outcome(effs) == /\ effects' = effs
                 /\ received' = Deliveries(sockets, effs)

(***************************************************************************)
(* NotificationService, each method run to completion.                     *)
(***************************************************************************)
\* the store, the id sequence and the cache as a handler sees them, with the
\* side effects the handler has caused so far
\* error names the rejection that is propagating ("ok": none), creates counts
\* the create calls of the handler, and the storeFailAt-th of them finds
\* prisma rejecting, the delFailAt-th finds cache.del rejecting (0: never)
WorldOf(f) ==
    [rows |-> notifications, nextId |-> nextId, cache |-> cache, effs |-> <<>>,
     error |-> "ok", creates |-> 0, storeFailAt |-> f.store,
     delFailAt |-> f.del]

NoFailure == [store |-> 0, del |-> 0]

World == WorldOf(NoFailure)

\* the most create calls one handler makes: the user's and one per admin
MaxFanOut == Cardinality(AdminIds) + 1

\* where the collaborators reject during one handler
Failures ==
    [store : IF "store" \in faults THEN 0..MaxFanOut ELSE {0},
     del : IF "del" \in faults THEN 0..MaxFanOut ELSE {0}]

\* create(dto) on w: nothing when an earlier statement of the handler has
\* thrown; a rejecting prisma create throws before anything is done; a
\* rejecting cache.del throws after the row is stored and the cache cleared
createIn(w, dto, clearOk) ==
    LET row == NewRow(w.nextId, dto)
        k == w.creates + 1
    IN IF w.error # "ok" THEN w
       ELSE IF k = w.storeFailAt
       THEN [w EXCEPT !.error = "PrismaError", !.creates = k]
       ELSE IF k = w.delFailAt
       THEN [w EXCEPT
               !.rows = w.rows \cup {row},
               !.nextId = w.nextId + 1,
               !.cache = delPattern(w.cache, <<"notifications:user", dto.userId>>,
                                    clearOk),
               !.effs = w.effs \o <<PersistEff(row.id)>>,
               !.error = "CacheError", !.creates = k]
       ELSE [w EXCEPT
               !.rows = w.rows \cup {row},
               !.nextId = w.nextId + 1,
               !.cache = invalidateCache(w.cache, dto.userId, clearOk),
               !.effs = w.effs \o
                  <<PersistEff(row.id), InvalidateEff(dto.userId),
                    emitNotification(dto.userId, toResponseDto(row))>>,
               !.creates = k]

\* deleteByMetadata(type, filter) run to completion on w
\* a retraction that retracts nothing
deleteByMetadataIn_Nothing(w, type, filter, clearOk) == w

deleteByMetadataIn(w, type, filter, clearOk) ==
    LET toDelete == ToDelete(w.rows, type, filter)
        groups == GroupByUser(toDelete)
    IN IF w.error # "ok" THEN w
       ELSE [w EXCEPT
               !.rows = w.rows \ DeletedRows(toDelete),
               !.cache = InvalidateAll(w.cache, groups, clearOk),
               !.effs = w.effs \o (IF Len(toDelete) > 0
                                    THEN <<RemoveEff(IdsOf(toDelete))>>
                                         \o DeletedEffects(groups)
                                    ELSE <<>>)]

\* the statements after w run only when nothing has thrown
Then(w, next) == IF w.error # "ok" THEN w ELSE next

\* the handler leaves w behind
Becomes(w) ==
    /\ notifications' = w.rows
    /\ nextId' = w.nextId
    /\ cache' = w.cache
    /\ Outcome(w.effs)

\* create that emits once per recorded socket of the user
Create_EmitsPerSocket(dto) ==
    LET row == NewRow(nextId, dto)
        n == Cardinality(IF dto.userId \in DOMAIN userSockets
                         THEN userSockets[dto.userId] ELSE {})
    IN /\ notifications' = notifications \cup {row}
       /\ nextId' = nextId + 1
       /\ cache' = invalidateCache(cache, dto.userId, TRUE)
       /\ Outcome(<<PersistEff(row.id), InvalidateEff(dto.userId)>> \o
                  [i \in 1..n |-> emitNotification(dto.userId, toResponseDto(row))])
       /\ last' = [Done("create", dto.userId, "ok") EXCEPT
                      !.id = row.id, !.type = dto.type]
       /\ UNCHANGED <<domainVars, userStatus, faults, sockets, userSockets>>

\* create: persist, invalidate the user's cache entries, emit to the user room
Create(dto) ==
    \E clearOk \in ClearOutcomes :
        /\ Becomes(createIn(World, dto, clearOk))
        /\ last' = [Done("create", dto.userId,
                         PushStatus(sockets, UserRoom(dto.userId))) EXCEPT
                       !.id = nextId, !.type = dto.type,
                       !.cached = HasCached(cache, dto.userId)]
        /\ UNCHANGED <<domainVars, userStatus, faults, sockets, userSockets>>

\* findByUser: the cached listing when there is one, else the query, then cached
FindByUser(userId, page, limit) ==
    LET result == findByUserResult(notifications, cache, userId, page, limit)
    IN /\ cache' = IF ListKey(userId, page, limit) \in DOMAIN cache.list
                   THEN cache
                   ELSE setList(cache, ListKey(userId, page, limit), result)
       /\ Quiet
       /\ last' = [Done("findByUser", userId, "ok") EXCEPT
                      !.page = page, !.limit = limit]
       /\ UNCHANGED <<domainVars, notifications, nextId, userStatus, faults, sockets,
                      userSockets>>

\* getUnreadCount: the cached count when there is one, else the count, then cached
GetUnreadCount(userId) ==
    LET count == getUnreadCountResult(notifications, cache, userId)
    IN /\ cache' = IF userId \in DOMAIN cache.unread
                   THEN cache
                   ELSE setUnread(cache, userId, count)
       /\ Quiet
       /\ last' = Done("getUnreadCount", userId, "ok")
       /\ UNCHANGED <<domainVars, notifications, nextId, userStatus, faults, sockets,
                      userSockets>>

\* id 0 stands for an absent notificationId
NoId == 0

Owned(rows, id) == {n \in rows : n.id = id}

\* an update that flips the flag of the rows it touches
MarkRead_Flips(rows, ids) ==
    {IF n.id \in ids THEN [n EXCEPT !.isRead = ~n.isRead] ELSE n : n \in rows}

MarkRead(rows, ids) ==
    {IF n.id \in ids THEN [n EXCEPT !.isRead = TRUE] ELSE n : n \in rows}

\* a markAsRead that does not look at the owner
markAsReadStatus_AnyOwner(rows, userId, notificationId, all) ==
    IF all \/ notificationId = NoId THEN "ok"
    ELSE IF Owned(rows, notificationId) = {} THEN "NotFound"
    ELSE "ok"

\* how markAsRead ends: if (all) ... else if (notificationId) { NotFound for
\* no row, Forbidden for another owner's row }
markAsReadStatus(rows, userId, notificationId, all) ==
    IF all \/ notificationId = NoId THEN "ok"
    ELSE IF Owned(rows, notificationId) = {} THEN "NotFound"
    ELSE IF \E n \in Owned(rows, notificationId) : n.userId # userId
    THEN "Forbidden"
    ELSE "ok"

\* a delete that does not look at the owner
deleteStatus_AnyOwner(rows, userId, notificationId) ==
    IF Owned(rows, notificationId) = {} THEN "NotFound" ELSE "ok"

\* how delete ends: NotFound for no row, Forbidden for another owner's row
deleteStatus(rows, userId, notificationId) ==
    IF Owned(rows, notificationId) = {} THEN "NotFound"
    ELSE IF \E n \in Owned(rows, notificationId) : n.userId # userId
    THEN "Forbidden"
    ELSE "ok"

\* markAsRead(userId, notificationId?, all?)
MarkAsRead(userId, notificationId, all) ==
    LET status == markAsReadStatus(notifications, userId, notificationId, all)
        ids == IF all
               THEN {n.id : n \in {m \in notifications :
                                      m.userId = userId /\ ~m.isRead}}
               ELSE IF notificationId = NoId THEN {} ELSE {notificationId}
    IN \E clearOk \in ClearOutcomes :
        /\ notifications' = IF status = "ok" THEN MarkRead(notifications, ids)
                            ELSE notifications
        /\ cache' = IF status = "ok" THEN invalidateCache(cache, userId, clearOk)
                    ELSE cache
        /\ Outcome(IF status = "ok" THEN <<InvalidateEff(userId)>> ELSE <<>>)
        /\ last' = [Done("markAsRead", userId, status) EXCEPT
                       !.id = notificationId, !.all = all,
                       !.cached = HasCached(cache, userId),
                       !.result = IF status = "ok"
                                  THEN <<Cardinality({n \in notifications :
                                            n.id \in ids /\ ~n.isRead})>>
                                  ELSE <<>>]
        /\ UNCHANGED <<domainVars, nextId, userStatus, faults, sockets, userSockets>>

\* delete(userId, notificationId)
Delete(userId, notificationId) ==
    LET found == Owned(notifications, notificationId)
        status == deleteStatus(notifications, userId, notificationId)
    IN \E clearOk \in ClearOutcomes :
        /\ notifications' = IF status = "ok" THEN notifications \ found
                            ELSE notifications
        /\ cache' = IF status = "ok" THEN invalidateCache(cache, userId, clearOk)
                    ELSE cache
        /\ Outcome(IF status = "ok"
                   THEN <<RemoveEff(<<notificationId>>), InvalidateEff(userId)>>
                   ELSE <<>>)
        /\ last' = [Done("delete", userId, status) EXCEPT !.id = notificationId]
        /\ UNCHANGED <<domainVars, nextId, userStatus, faults, sockets, userSockets>>

\* deleteByMetadata(type, metadata)
DeleteByMetadata(type, filter) ==
    LET groups == GroupByUser(ToDelete(notifications, type, filter))
    IN \E clearOk \in ClearOutcomes :
        /\ Becomes(deleteByMetadataIn(World, type, filter, clearOk))
        /\ last' = [Done("deleteByMetadata", "",
                         IF \A i \in 1..Len(groups) :
                               PushStatus(sockets, UserRoom(groups[i].userId)) = "ok"
                         THEN "ok" ELSE "Internal") EXCEPT
                       !.type = type, !.filter = filter,
                       !.again = /\ last.op = "deleteByMetadata"
                                 /\ last.type = type
                                 /\ last.filter = filter
                                 /\ effects # <<>>]
        /\ UNCHANGED <<domainVars, userStatus, faults, sockets, userSockets>>

\* a cache entry reaches its TTL (5 minutes) and is dropped
CacheExpire ==
    /\ \/ \E k \in DOMAIN cache.list :
             cache' = [cache EXCEPT !.list = Drop(cache.list, k)]
       \/ \E u \in DOMAIN cache.unread :
             cache' = [cache EXCEPT !.unread = Drop(cache.unread, u)]
    /\ Quiet
    /\ last' = Done("expire", "", "ok")
    /\ UNCHANGED <<domainVars, notifications, nextId, userStatus, faults, sockets,
                   userSockets>>

(***************************************************************************)
(* EventsGateway: connections and the presence map.                        *)
(***************************************************************************)
NoSocket == [connected |-> FALSE, userId |-> "", rooms |-> {}]

\* the handshake token: none, one that verify() rejects, or one signed for sub
NoToken == [given |-> FALSE, valid |-> FALSE, sub |-> ""]
BadToken == [given |-> TRUE, valid |-> FALSE, sub |-> ""]
TokenOf(userId) == [given |-> TRUE, valid |-> TRUE, sub |-> userId]

\* a new Set() for every connection
SocketsOf_Fresh(map, userId) == {}

SocketsOf(map, userId) == IF userId \in DOMAIN map THEN map[userId] ELSE {}

\* handleConnection: with a token that verifies, set client.userId, join the
\* user room and record the socket; otherwise the socket stays anonymous
HandleConnection(s, token) ==
    /\ ~sockets[s].connected
    /\ IF token.given /\ token.valid
       THEN /\ sockets' = [sockets EXCEPT ![s] =
                              [connected |-> TRUE, userId |-> token.sub,
                               rooms |-> {UserRoom(token.sub)}]]
            /\ userSockets' = Put(userSockets, token.sub,
                                  SocketsOf(userSockets, token.sub) \cup {s})
       ELSE /\ sockets' = [sockets EXCEPT ![s] =
                              [connected |-> TRUE, userId |-> "", rooms |-> {}]]
            /\ userSockets' = userSockets
    /\ effects' = <<>>
    /\ received' = [x \in Sockets |-> <<>>]
    /\ last' = [Done("handleConnection", token.sub, "ok") EXCEPT !.id = s]
    /\ UNCHANGED <<domainVars, notifications, nextId, cache, userStatus, faults>>

\* handleDisconnect: forget the socket; the user's entry goes with its last
\* socket.  The transport takes a disconnected socket out of its rooms.
HandleDisconnect(s) ==
    /\ sockets[s].connected
    /\ LET userId == sockets[s].userId
           left == SocketsOf(userSockets, userId) \ {s}
       IN userSockets' =
             IF userId # "" /\ userId \in DOMAIN userSockets
             THEN IF left = {} THEN Drop(userSockets, userId)
                  ELSE Put(userSockets, userId, left)
             ELSE userSockets
    /\ sockets' = [sockets EXCEPT ![s] = NoSocket]
    /\ effects' = <<>>
    /\ received' = [x \in Sockets |-> <<>>]
    /\ last' = [Done("handleDisconnect", sockets[s].userId, "ok") EXCEPT !.id = s]
    /\ UNCHANGED <<domainVars, notifications, nextId, cache, userStatus, faults>>

\* @SubscribeMessage('joinProduct'): client.join(`product:${productId}`)
HandleJoinProduct(s, productId) ==
    /\ sockets[s].connected
    /\ sockets' = [sockets EXCEPT ![s].rooms = @ \cup {ProductRoom(productId)}]
    /\ effects' = <<>>
    /\ received' = [x \in Sockets |-> <<>>]
    /\ last' = [Done("joinProduct", sockets[s].userId, "ok") EXCEPT !.id = s]
    /\ UNCHANGED <<domainVars, notifications, nextId, cache, userStatus, faults,
                   userSockets>>

\* @SubscribeMessage('leaveProduct'): client.leave(`product:${productId}`)
HandleLeaveProduct(s, productId) ==
    /\ sockets[s].connected
    /\ sockets' = [sockets EXCEPT ![s].rooms = @ \ {ProductRoom(productId)}]
    /\ effects' = <<>>
    /\ received' = [x \in Sockets |-> <<>>]
    /\ last' = [Done("leaveProduct", sockets[s].userId, "ok") EXCEPT !.id = s]
    /\ UNCHANGED <<domainVars, notifications, nextId, cache, userStatus, faults,
                   userSockets>>

(***************************************************************************)
(* UserService: lock and unlock by an administrator.                       *)
(***************************************************************************)
\* lockUser(id): status BANNED, accountBanned to the user's room, user
\* listings invalidated (delPattern)
LockUser(id) ==
    \E clearOk \in ClearOutcomes :
        /\ userStatus' = [userStatus EXCEPT ![id] = "BANNED"]
        /\ cache' = delPattern(cache, <<"users:list">>, clearOk)
        /\ Outcome(<<emitAccountBanned(id)>>)
        /\ last' = [Done("lockUser", id, PushStatus(sockets, UserRoom(id))) EXCEPT
                       !.result = [cleared |-> clearOk]]
        /\ UNCHANGED <<domainVars, notifications, nextId, faults, sockets, userSockets>>

\* unlockUser(id): status NORMAL, user listings invalidated
UnlockUser(id) ==
    \E clearOk \in ClearOutcomes :
        /\ userStatus' = [userStatus EXCEPT ![id] = "NORMAL"]
        /\ cache' = delPattern(cache, <<"users:list">>, clearOk)
        /\ Quiet
        /\ last' = [Done("unlockUser", id, "ok") EXCEPT
                       !.result = [cleared |-> clearOk]]
        /\ UNCHANGED <<domainVars, notifications, nextId, faults, sockets, userSockets>>

(***************************************************************************)
(* NotificationService step by step: one action per await of create,       *)
(* findByUser and getUnreadCount, so that calls interleave.                *)
(***************************************************************************)
NewCall(op, pc, userId) ==
    [op |-> op, pc |-> pc, userId |-> userId, page |-> 0, limit |-> 0,
     id |-> 0, rows |-> <<>>, total |-> 0, result |-> <<>>, count |-> 0,
     did |-> <<>>, seen |-> {}]

StoreOutcomes == IF "store" \in faults THEN BOOLEAN ELSE {TRUE}
DelOutcomes == IF "del" \in faults THEN BOOLEAN ELSE {TRUE}

\* the dto of the creates that run step by step
StepDto(userId) ==
    Dto(userId, "PRODUCT_LIKE", "title", <<"content">>, Meta([productId |-> "p1"]))

\* create with the push moved in front of the invalidation
CreateNextPc_EmitFirst(pc) ==
    CASE pc = "persist" -> "emit"
      [] pc = "emit" -> "delPattern"
      [] pc = "delPattern" -> "del"
      [] pc = "del" -> "done"

\* the statements of create in program order: prisma.notification.create,
\* invalidateCache (delPattern, then del), emitNotification, return
CreateNextPc(pc) ==
    CASE pc = "persist" -> "delPattern"
      [] pc = "delPattern" -> "del"
      [] pc = "del" -> "emit"
      [] pc = "emit" -> "done"

\* the ids whose 'notification' event has been emitted to the user's room
Pushed(userId) ==
    {calls[c].id : c \in {x \in DOMAIN calls :
                             /\ calls[x].op = "create"
                             /\ calls[x].userId = userId
                             /\ "emit" \in Range(calls[x].did)}}

Advance(c, pc) ==
    [calls EXCEPT ![c].pc = pc, ![c].did = Append(calls[c].did, calls[c].pc)]

StartCreate(userId) ==
    /\ calls' = Append(calls, NewCall("create", "persist", userId))
    /\ UNCHANGED <<notifications, nextId, cache, userStatus, faults, sockets,
                   userSockets, effects, received, last, productReaction,
                   reviewLike, devToolsLog, tables>>

StartFindByUser(userId, page, limit) ==
    /\ calls' = Append(calls, [NewCall("findByUser", "get", userId) EXCEPT
                                  !.page = page, !.limit = limit,
                                  !.seen = Pushed(userId)])
    /\ UNCHANGED <<notifications, nextId, cache, userStatus, faults, sockets,
                   userSockets, effects, received, last, productReaction,
                   reviewLike, devToolsLog, tables>>

StartGetUnreadCount(userId) ==
    /\ calls' = Append(calls, NewCall("getUnreadCount", "get", userId))
    /\ UNCHANGED <<notifications, nextId, cache, userStatus, faults, sockets,
                   userSockets, effects, received, last, productReaction,
                   reviewLike, devToolsLog, tables>>

\* await prisma.notification.create(...): the row is stored, or the call throws
CreatePersist(c) ==
    /\ calls[c].op = "create" /\ calls[c].pc = "persist"
    /\ \E ok \in StoreOutcomes :
          IF ok
          THEN /\ notifications' =
                     notifications \cup {NewRow(nextId, StepDto(calls[c].userId))}
               /\ nextId' = nextId + 1
               /\ effects' = Append(effects, PersistEff(nextId))
               /\ calls' = [Advance(c, CreateNextPc("persist")) EXCEPT
                               ![c].id = nextId]
          ELSE /\ calls' = [calls EXCEPT ![c].pc = "failed"]
               /\ UNCHANGED <<notifications, nextId, effects>>
    /\ UNCHANGED <<cache, userStatus, faults, sockets, userSockets, received,
                   last, productReaction, reviewLike, devToolsLog, tables>>

\* await this.cache.delPattern(...): a failing clear is swallowed
CreateDelPattern(c) ==
    /\ calls[c].op = "create" /\ calls[c].pc = "delPattern"
    /\ \E clearOk \in ClearOutcomes :
          cache' = delPattern(cache, <<"notifications:user", calls[c].userId>>,
                              clearOk)
    /\ calls' = Advance(c, CreateNextPc("delPattern"))
    /\ UNCHANGED <<notifications, nextId, userStatus, faults, sockets,
                   userSockets, effects, received, last, productReaction,
                   reviewLike, devToolsLog, tables>>

\* await this.cache.del(unread key): the key is dropped, or the call throws
CreateDel(c) ==
    /\ calls[c].op = "create" /\ calls[c].pc = "del"
    /\ \E ok \in DelOutcomes :
          IF ok
          THEN /\ cache' = delUnread(cache, calls[c].userId)
               /\ effects' = Append(effects, InvalidateEff(calls[c].userId))
               /\ calls' = Advance(c, CreateNextPc("del"))
          ELSE /\ calls' = [calls EXCEPT ![c].pc = "failed"]
               /\ UNCHANGED <<cache, effects>>
    /\ UNCHANGED <<notifications, nextId, userStatus, faults, sockets,
                   userSockets, received, last, productReaction, reviewLike,
                   devToolsLog, tables>>

\* this.eventsGateway.emitNotification(dto.userId, responseDto)
CreateEmit(c) ==
    /\ calls[c].op = "create" /\ calls[c].pc = "emit"
    /\ effects' = Append(effects,
                         emitNotification(calls[c].userId,
                            toResponseDto(NewRow(calls[c].id,
                                                 StepDto(calls[c].userId)))))
    /\ calls' = Advance(c, CreateNextPc("emit"))
    /\ UNCHANGED <<notifications, nextId, cache, userStatus, faults, sockets,
                   userSockets, received, last, productReaction, reviewLike,
                   devToolsLog, tables>>

\* const cached = await this.cache.get(cacheKey); if (cached) return cached
FindGet(c) ==
    /\ calls[c].op = "findByUser" /\ calls[c].pc = "get"
    /\ LET key == ListKey(calls[c].userId, calls[c].page, calls[c].limit)
       IN calls' = IF key \in DOMAIN cache.list
                   THEN [Advance(c, "done") EXCEPT ![c].result = <<cache.list[key]>>]
                   ELSE Advance(c, "query")
    /\ UNCHANGED <<notifications, nextId, cache, userStatus, faults, sockets,
                   userSockets, effects, received, last, productReaction,
                   reviewLike, devToolsLog, tables>>

\* the findMany of Promise.all([findMany, count]), before or after the count
FindRows(c) ==
    /\ calls[c].op = "findByUser" /\ calls[c].pc \in {"query", "queryRows"}
    /\ calls' = [Advance(c, IF calls[c].pc = "query" THEN "queryCount" ELSE "set")
                    EXCEPT ![c].rows = FoundRows(notifications, calls[c].userId,
                                                 calls[c].page, calls[c].limit)]
    /\ UNCHANGED <<notifications, nextId, cache, userStatus, faults, sockets,
                   userSockets, effects, received, last, productReaction,
                   reviewLike, devToolsLog, tables>>

\* the count of Promise.all([findMany, count]), before or after the findMany
FindCount(c) ==
    /\ calls[c].op = "findByUser" /\ calls[c].pc \in {"query", "queryCount"}
    /\ calls' = [Advance(c, IF calls[c].pc = "query" THEN "queryRows" ELSE "set")
                    EXCEPT ![c].total = CountOf(notifications, calls[c].userId)]
    /\ UNCHANGED <<notifications, nextId, cache, userStatus, faults, sockets,
                   userSockets, effects, received, last, productReaction,
                   reviewLike, devToolsLog, tables>>

\* await this.cache.set(cacheKey, result, CACHE_TTL); return result
FindSet(c) ==
    /\ calls[c].op = "findByUser" /\ calls[c].pc = "set"
    /\ LET result == BuildListing(calls[c].rows, calls[c].total,
                                  calls[c].page, calls[c].limit)
       IN /\ cache' = setList(cache, ListKey(calls[c].userId, calls[c].page,
                                             calls[c].limit), result)
          /\ calls' = [Advance(c, "done") EXCEPT ![c].result = <<result>>]
    /\ UNCHANGED <<notifications, nextId, userStatus, faults, sockets,
                   userSockets, effects, received, last, productReaction,
                   reviewLike, devToolsLog, tables>>

\* const cached = await this.cache.get(unread key); a cached number is returned
UnreadGet(c) ==
    /\ calls[c].op = "getUnreadCount" /\ calls[c].pc = "get"
    /\ calls' = IF calls[c].userId \in DOMAIN cache.unread
                THEN [Advance(c, "done") EXCEPT
                         ![c].count = cache.unread[calls[c].userId]]
                ELSE Advance(c, "count")
    /\ UNCHANGED <<notifications, nextId, cache, userStatus, faults, sockets,
                   userSockets, effects, received, last, productReaction,
                   reviewLike, devToolsLog, tables>>

\* await this.prisma.notification.count({ where: { userId, isRead: false } })
UnreadCount(c) ==
    /\ calls[c].op = "getUnreadCount" /\ calls[c].pc = "count"
    /\ calls' = [Advance(c, "set") EXCEPT
                    ![c].count = UnreadOf(notifications, calls[c].userId)]
    /\ UNCHANGED <<notifications, nextId, cache, userStatus, faults, sockets,
                   userSockets, effects, received, last, productReaction,
                   reviewLike, devToolsLog, tables>>

\* await this.cache.set(unread key, count, CACHE_TTL); return count
UnreadSet(c) ==
    /\ calls[c].op = "getUnreadCount" /\ calls[c].pc = "set"
    /\ cache' = setUnread(cache, calls[c].userId, calls[c].count)
    /\ calls' = Advance(c, "done")
    /\ UNCHANGED <<notifications, nextId, userStatus, faults, sockets,
                   userSockets, effects, received, last, productReaction,
                   reviewLike, devToolsLog, tables>>

(***************************************************************************)
(* Reactions: ProductService.toggleReaction and ReviewService.likeReview.  *)
(***************************************************************************)
\* user.username
Username(userId) == <<"name", userId>>

\* the product table: p1 is live, any other id is not found
ProductIds == {"p1"}
NoProduct == "p0"
ProductName(productId) == <<"product", productId>>

\* review ids in the order the table hands them out; r0 is never handed out
ReviewPool == <<"r1", "r2", "r3">>
NoReview == "r0"
NoParent == "null"

\* the seeded review table: r1 was written by u1 on p1
ReviewIds == {"r1"}
SeedReviews ==
    [r \in ReviewIds |->
        [id |-> r, userId |-> "u1", productId |-> "p1", parentId |-> NoParent,
         content |-> <<"g", "o", "o", "d">>]]

\* prisma.review.findUnique({ where: { id } }) of a row that exists
ReviewRow(reviewId) == reviews[reviewId]

\* reviewContent.substring(0, 50)
Substring50(content) == SubSeq(content, 1, Min(Len(content), 50))

\* "${reviewContent.substring(0, 50)}...": the three dots follow the
\* substring whatever the length of the content
Excerpt(content) == Substring50(content) \o <<"...">>

\* isLike as the JSON value stored in metadata
JsonBool(b) == IF b THEN "true" ELSE "false"

RECURSIVE notifyAdminProductLike(_, _, _, _, _, _)
\* for (const adminId of adminIds) await this.create({... PRODUCT_LIKE ...})
notifyAdminProductLike(w, adminIds, username, productName, productId, clearOk) ==
    IF adminIds = <<>> THEN w
    ELSE notifyAdminProductLike(
            createIn(w, Dto(adminIds[1], "PRODUCT_LIKE", "productLiked",
                            <<username, "liked", productName>>,
                            Meta([productId |-> productId])),
                     clearOk),
            Tail(adminIds), username, productName, productId, clearOk)

\* notifyReviewLike: the notification of a like, without isLike in its metadata
notifyReviewReaction_AsLike(w, ownerId, reactorUsername, reviewContent, productId, reviewId, isLike, clearOk) ==
    createIn(w, Dto(ownerId, "REVIEW_LIKE", "reviewLiked",
                    <<reactorUsername, "liked", Excerpt(reviewContent)>>,
                    Meta([productId |-> productId, reviewId |-> reviewId])),
             clearOk)

\* one REVIEW_LIKE notification for the review's owner
notifyReviewReaction(w, ownerId, reactorUsername, reviewContent, productId, reviewId, isLike, clearOk) ==
    createIn(w, Dto(ownerId, "REVIEW_LIKE",
                    IF isLike THEN "reviewLiked" ELSE "reviewDisliked",
                    <<reactorUsername, IF isLike THEN "liked" ELSE "disliked",
                      Excerpt(reviewContent)>>,
                    Meta([productId |-> productId, reviewId |-> reviewId,
                          isLike |-> JsonBool(isLike)])),
             clearOk)

\* getAdminIds(): the ADMIN users in the order findMany returns them
getAdminIds == SelectSeq(UserOrder, LAMBDA u : Role(u) = "ADMIN")

emitProductReactionUpdated(productId, data) ==
    EmitEff(ProductRoom(productId), "productReactionUpdated", <<>>, data)

emitReviewUpdated(productId, review) ==
    EmitEff(ProductRoom(productId), "reviewUpdated", <<>>, review)

\* the key (productId, userId) of productReaction
Reaction(productId, userId) == [productId |-> productId, userId |-> userId]

\* toggleReaction(productId, userId)
ToggleReaction(productId, userId) ==
    IF productId \notin ProductIds
    THEN /\ last' = Done("toggleReaction", userId, "NotFound")
         /\ Quiet
         /\ UNCHANGED <<notifications, nextId, cache, domainVars, userStatus,
                        faults, sockets, userSockets>>
    ELSE \E clearOk \in ClearOutcomes, f \in Failures :
        LET existing == Reaction(productId, userId) \in productReaction
            reactions == IF existing
                         THEN productReaction \ {Reaction(productId, userId)}
                         ELSE productReaction \cup {Reaction(productId, userId)}
            w1 == IF existing
                  THEN deleteByMetadataIn(WorldOf(f), "PRODUCT_LIKE",
                                          [productId |-> productId], clearOk)
                  ELSE notifyAdminProductLike(WorldOf(f), getAdminIds,
                                              Username(userId),
                                              ProductName(productId),
                                              productId, clearOk)
            count == Cardinality({r \in reactions : r.productId = productId})
            w2 == Then(w1, [w1 EXCEPT
                     !.cache = delPattern(w1.cache, <<"products">>, clearOk),
                     !.effs = w1.effs \o
                        <<emitProductReactionUpdated(productId,
                             [count |-> count, userId |-> userId,
                              reacted |-> ~existing])>>])
        IN /\ productReaction' = reactions
           /\ Becomes(w2)
           /\ last' = [Done("toggleReaction", userId, w2.error) EXCEPT
                          !.type = "PRODUCT_LIKE",
                          !.filter = [productId |-> productId],
                          !.existing = existing,
                          !.failures = f,
                          !.result = IF w2.error = "ok"
                                     THEN [reacted |-> ~existing, count |-> count]
                                     ELSE <<>>]
           /\ UNCHANGED <<calls, reviewLike, devToolsLog, userStatus, faults,
                          sockets, userSockets, tables>>

RECURSIVE notifyAdminProductSave(_, _, _, _, _, _)
\* for (const adminId of adminIds) await this.create({... PRODUCT_SAVE ...})
notifyAdminProductSave(w, adminIds, username, productName, productId, clearOk) ==
    IF adminIds = <<>> THEN w
    ELSE notifyAdminProductSave(
            createIn(w, Dto(adminIds[1], "PRODUCT_SAVE", "productSaved",
                            <<username, "saved", productName>>,
                            Meta([productId |-> productId])),
                     clearOk),
            Tail(adminIds), username, productName, productId, clearOk)

emitProductSavedUpdated(productId, data) ==
    EmitEff(ProductRoom(productId), "productSavedUpdated", <<>>, data)

\* toggleSaved(productId, userId): un-saving retracts and then broadcasts,
\* saving broadcasts and then notifies the admins
ToggleSaved(productId, userId) ==
    IF productId \notin ProductIds
    THEN /\ last' = Done("toggleSaved", userId, "NotFound")
         /\ Quiet
         /\ UNCHANGED <<notifications, nextId, cache, domainVars, userStatus,
                        faults, sockets, userSockets>>
    ELSE \E clearOk \in ClearOutcomes, f \in Failures :
        LET existing == Reaction(productId, userId) \in savedProduct
            saved == IF existing
                     THEN savedProduct \ {Reaction(productId, userId)}
                     ELSE savedProduct \cup {Reaction(productId, userId)}
            broadcast == emitProductSavedUpdated(productId,
                            [userId |-> userId, saved |-> ~existing])
            w0 == WorldOf(f)
            w1 == IF existing
                  THEN LET d == deleteByMetadataIn(w0, "PRODUCT_SAVE",
                                   [productId |-> productId], clearOk)
                       IN Then(d, [d EXCEPT !.effs = d.effs \o <<broadcast>>])
                  ELSE notifyAdminProductSave(
                          [w0 EXCEPT !.effs = w0.effs \o <<broadcast>>],
                          getAdminIds, Username(userId),
                          ProductName(productId), productId, clearOk)
        IN /\ savedProduct' = saved
           /\ Becomes(w1)
           /\ last' = [Done("toggleSaved", userId, w1.error) EXCEPT
                          !.type = "PRODUCT_SAVE",
                          !.filter = [productId |-> productId],
                          !.existing = existing,
                          !.failures = f,
                          !.result = IF w1.error = "ok"
                                     THEN [saved |-> ~existing]
                                     ELSE <<>>]
           /\ UNCHANGED <<calls, productReaction, reviewLike, devToolsLog,
                          reviews, nextReview, olderLog, importJobs,
                          userStatus, faults, sockets, userSockets>>

\* the key (reviewId, userId) of reviewLike
LikeKey(reviewId, userId) == <<reviewId, userId>>

CountLikes(likes, reviewId, isLike) ==
    Cardinality({k \in DOMAIN likes : k[1] = reviewId /\ likes[k] = isLike})

\* a notifier that does not look at who acts
IsOther_Always(ownerId, userId) == TRUE

\* review.userId !== userId, parentReview.userId !== userId
IsOther(ownerId, userId) == ownerId # userId

\* likeReview(reviewId, userId, isLike)
LikeReview(reviewId, userId, isLike) ==
    IF reviewId \notin DOMAIN reviews
    THEN /\ last' = Done("likeReview", userId, "NotFound")
         /\ Quiet
         /\ UNCHANGED <<notifications, nextId, cache, domainVars, userStatus,
                        faults, sockets, userSockets>>
    ELSE \E clearOk \in ClearOutcomes, f \in Failures :
        LET review == ReviewRow(reviewId)
            key == LikeKey(reviewId, userId)
            existing == key \in DOMAIN reviewLike
            same == existing /\ reviewLike[key] = isLike
            likes == IF same THEN Drop(reviewLike, key)
                     ELSE Put(reviewLike, key, isLike)
            isNewReaction == ~same
            shouldDeleteNotification == existing
            w1 == IF shouldDeleteNotification /\ IsOther(review.userId, userId)
                  THEN deleteByMetadataIn(WorldOf(f), "REVIEW_LIKE",
                                          [reviewId |-> reviewId], clearOk)
                  ELSE WorldOf(f)
            w2 == IF isNewReaction /\ IsOther(review.userId, userId)
                  THEN notifyReviewReaction(w1, review.userId, Username(userId),
                                            review.content, review.productId,
                                            reviewId, isLike, clearOk)
                  ELSE w1
            result == [likes |-> CountLikes(likes, reviewId, TRUE),
                       dislikes |-> CountLikes(likes, reviewId, FALSE),
                       userReaction |-> IF key \in DOMAIN likes
                                        THEN JsonBool(likes[key]) ELSE "null"]
            w3 == Then(w2, [w2 EXCEPT
                     !.cache = delPattern(w2.cache,
                                          <<"reviews:product", review.productId>>,
                                          clearOk),
                     !.effs = w2.effs \o
                        <<emitReviewUpdated(review.productId,
                             [id |-> reviewId, likes |-> result.likes,
                              dislikes |-> result.dislikes,
                              userReaction |-> result.userReaction])>>])
        IN /\ reviewLike' = likes
           /\ Becomes(w3)
           /\ last' = [Done("likeReview", userId, w3.error) EXCEPT
                          !.type = "REVIEW_LIKE",
                          !.filter = [reviewId |-> reviewId],
                          !.existing = existing,
                          !.failures = f,
                          !.result = IF w3.error = "ok" THEN result ELSE <<>>]
           /\ UNCHANGED <<calls, productReaction, devToolsLog, userStatus,
                          faults, sockets, userSockets, tables>>

(***************************************************************************)
(* toggleReaction, one step per awaited statement.                         *)
(***************************************************************************)
ToggleCall(productId, userId) ==
    [op |-> "toggleReaction", pc |-> "find", userId |-> userId,
     productId |-> productId, existing |-> FALSE, status |-> "running",
     count |-> 0, did |-> <<>>]

StartToggle(productId, userId) ==
    /\ calls' = Append(calls, ToggleCall(productId, userId))
    /\ UNCHANGED <<notifications, nextId, cache, userStatus, faults, sockets,
                   userSockets, effects, received, last, productReaction,
                   reviewLike, devToolsLog, tables>>

\* const existing = await this.prisma.productReaction.findUnique(...)
ToggleFind(c) ==
    /\ calls[c].op = "toggleReaction" /\ calls[c].pc = "find"
    /\ calls' = [Advance(c, "write") EXCEPT
                    ![c].existing =
                       Reaction(calls[c].productId, calls[c].userId)
                          \in productReaction]
    /\ UNCHANGED <<notifications, nextId, cache, userStatus, faults, sockets,
                   userSockets, effects, received, last, productReaction,
                   reviewLike, devToolsLog, tables>>

\* productReaction.delete({ where: { id: existing.id } }) rejects when the row
\* is gone; productReaction.create rejects when the unique pair
\* (productId, userId) is taken
ToggleWrite(c) ==
    LET row == Reaction(calls[c].productId, calls[c].userId)
        rejected == calls[c].existing <=> row \notin productReaction
    IN /\ calls[c].op = "toggleReaction" /\ calls[c].pc = "write"
       /\ productReaction' =
             IF rejected THEN productReaction
             ELSE IF calls[c].existing THEN productReaction \ {row}
             ELSE productReaction \cup {row}
       /\ calls' = IF rejected
                   THEN [Advance(c, "done") EXCEPT ![c].status = "PrismaError"]
                   ELSE Advance(c, "notify")
       /\ UNCHANGED <<notifications, nextId, cache, userStatus, faults,
                      sockets, userSockets, effects, received, last,
                      reviewLike, devToolsLog, tables>>

\* await deleteByMetadata(PRODUCT_LIKE, { productId }) after a delete,
\* await notifyAdminProductLike(adminIds, ...) after a create
ToggleNotify(c) ==
    LET w == IF calls[c].existing
             THEN deleteByMetadataIn(World, "PRODUCT_LIKE",
                                     [productId |-> calls[c].productId], TRUE)
             ELSE notifyAdminProductLike(World, getAdminIds,
                                         Username(calls[c].userId),
                                         ProductName(calls[c].productId),
                                         calls[c].productId, TRUE)
    IN /\ calls[c].op = "toggleReaction" /\ calls[c].pc = "notify"
       /\ notifications' = w.rows
       /\ nextId' = w.nextId
       /\ cache' = w.cache
       /\ effects' = effects \o w.effs
       /\ calls' = Advance(c, "count")
       /\ UNCHANGED <<userStatus, faults, sockets, userSockets, received,
                      last, productReaction, reviewLike, devToolsLog, tables>>

\* the count, invalidateCache, the broadcast and the return
ToggleFinish(c) ==
    LET count == Cardinality({r \in productReaction :
                                 r.productId = calls[c].productId})
    IN /\ calls[c].op = "toggleReaction" /\ calls[c].pc = "count"
       /\ cache' = delPattern(cache, <<"products">>, TRUE)
       /\ effects' = Append(effects,
                            emitProductReactionUpdated(calls[c].productId,
                               [count |-> count, userId |-> calls[c].userId,
                                reacted |-> ~calls[c].existing]))
       /\ calls' = [Advance(c, "done") EXCEPT ![c].status = "ok",
                                              ![c].count = count]
       /\ UNCHANGED <<notifications, nextId, userStatus, faults, sockets,
                      userSockets, received, last, productReaction,
                      reviewLike, devToolsLog, tables>>

(***************************************************************************)
(* ReviewService: comments, replies and their removal.                     *)
(***************************************************************************)
\* a comment is a sequence of tokens: characters, tags, attributes, schemes
\* the tokens sanitizeHtml cuts out; <p>, <strong>, <em>, <u>, <s>, <ul>, <ol>,
\* <li>, <blockquote>, <br>, <hr> and plain characters stay
Stripped == {"<script>", "<img>", "onclick='x'", "javascript:", "data:"}

\* sanitizeHtml(html): tags outside the allowed ones, on* attributes and the
\* javascript: and data: schemes are cut out
sanitizeHtml(html) == SelectSeq(html, LAMBDA t : t \notin Stripped)

\* the id prisma.review.create gives to the next row
NextReviewId == ReviewPool[nextReview + 1]

\* findMany({ where: { parentId: id } }) in the table's order
RepliesOf(rows, id) ==
    SelectSeq(ReviewPool,
              LAMBDA r : r \in DOMAIN rows /\ rows[r].parentId = id)

RECURSIVE Descendants(_, _)
\* the reviews of rows that have id as an ancestor
Descendants(rows, id) ==
    LET direct == {r \in DOMAIN rows : rows[r].parentId = id}
    IN direct \cup UNION {Descendants(rows, r) : r \in direct}

\* a reply notification whose reviewId and parentId changed places
notifyReviewReply_Swapped(w, ownerId, replierUsername, replyContent, productId, reviewId, parentId, clearOk) ==
    createIn(w, Dto(ownerId, "REVIEW_REPLY", "reviewReplied",
                    <<replierUsername, "replied", Excerpt(replyContent)>>,
                    Meta([productId |-> productId, reviewId |-> parentId,
                          parentId |-> reviewId])),
             clearOk)

notifyReviewReply(w, ownerId, replierUsername, replyContent, productId, reviewId, parentId, clearOk) ==
    createIn(w, Dto(ownerId, "REVIEW_REPLY", "reviewReplied",
                    <<replierUsername, "replied", Excerpt(replyContent)>>,
                    Meta([productId |-> productId, reviewId |-> reviewId,
                          parentId |-> parentId])),
             clearOk)

RECURSIVE notifyAdminProductComment_NoReviewId(_, _, _, _, _, _, _, _)
\* admin notifications that name the product only
notifyAdminProductComment_NoReviewId(w, adminIds, username, productName, productId, reviewId, commentContent, clearOk) ==
    IF adminIds = <<>> THEN w
    ELSE notifyAdminProductComment_NoReviewId(
            createIn(w, Dto(adminIds[1], "PRODUCT_COMMENT", "newComment",
                            <<username, "commented", productName,
                              Excerpt(commentContent)>>,
                            Meta([productId |-> productId])),
                     clearOk),
            Tail(adminIds), username, productName, productId, reviewId,
            commentContent, clearOk)

RECURSIVE notifyAdminProductComment(_, _, _, _, _, _, _, _)
\* for (const adminId of adminIds) await this.create({... PRODUCT_COMMENT ...})
notifyAdminProductComment(w, adminIds, username, productName, productId, reviewId, commentContent, clearOk) ==
    IF adminIds = <<>> THEN w
    ELSE notifyAdminProductComment(
            createIn(w, Dto(adminIds[1], "PRODUCT_COMMENT", "newComment",
                            <<username, "commented", productName,
                              Excerpt(commentContent)>>,
                            Meta([productId |-> productId,
                                  reviewId |-> reviewId])),
                     clearOk),
            Tail(adminIds), username, productName, productId, reviewId,
            commentContent, clearOk)

emitNewReview(productId, review) ==
    EmitEff(ProductRoom(productId), "newReview", <<>>, review)

emitReviewDeleted(productId, reviewId) ==
    EmitEff(ProductRoom(productId), "reviewDeleted", <<>>, [reviewId |-> reviewId])

\* a write to the review table
ReviewEff(kind, ids) ==
    [kind |-> kind, event |-> "", room |-> <<"", "">>, ids |-> ids, dto |-> <<>>]

\* ReviewService.create(dto, userId)
CreateReview(productId, parentId, content, userId) ==
    IF productId \notin ProductIds
    THEN /\ last' = Done("createReview", userId, "NotFound")
         /\ Quiet
         /\ UNCHANGED <<notifications, nextId, cache, domainVars, userStatus,
                        faults, sockets, userSockets>>
    ELSE IF /\ parentId # NoParent
            /\ \/ parentId \notin DOMAIN reviews
               \/ reviews[parentId].productId # productId
    THEN /\ last' = Done("createReview", userId, "BadRequest")
         /\ Quiet
         /\ UNCHANGED <<notifications, nextId, cache, domainVars, userStatus,
                        faults, sockets, userSockets>>
    ELSE \E clearOk \in ClearOutcomes, f \in Failures :
        LET sanitizedContent == sanitizeHtml(content)
            review == [id |-> NextReviewId, userId |-> userId,
                       productId |-> productId, parentId |-> parentId,
                       content |-> sanitizedContent]
            w0 == WorldOf(f)
            w1 == [w0 EXCEPT
                     !.cache = delPattern(w0.cache,
                                          <<"reviews:product", productId>>,
                                          clearOk),
                     !.effs = <<ReviewEff("persistReview", <<review.id>>),
                                emitNewReview(productId, review)>>]
            w2 == IF /\ parentId # NoParent
                     /\ IsOther(reviews[parentId].userId, userId)
                  THEN notifyReviewReply(w1, reviews[parentId].userId,
                                         Username(userId), sanitizedContent,
                                         productId, review.id, parentId, clearOk)
                  ELSE w1
            w3 == notifyAdminProductComment(w2, getAdminIds, Username(userId),
                                            ProductName(productId), productId,
                                            review.id, sanitizedContent, clearOk)
        IN /\ reviews' = Put(reviews, review.id, review)
           /\ nextReview' = nextReview + 1
           /\ Becomes(w3)
           /\ last' = [Done("createReview", userId, w3.error) EXCEPT
                          !.filter = [reviewId |-> review.id],
                          !.failures = f,
                          !.result = IF w3.error = "ok" THEN review ELSE <<>>]
           /\ UNCHANGED <<calls, productReaction, reviewLike, devToolsLog,
                          savedProduct, olderLog, importJobs, userStatus,
                          faults, sockets, userSockets>>

RECURSIVE retractReplies(_, _, _)
\* for (const reply of replies): the three deleteByMetadata calls per reply
retractReplies(w, replies, clearOk) ==
    IF replies = <<>> THEN w
    ELSE LET f == [reviewId |-> replies[1]]
         IN retractReplies(
               deleteByMetadataIn(
                  deleteByMetadataIn(
                     deleteByMetadataIn(w, "REVIEW_LIKE", f, clearOk),
                     "REVIEW_REPLY", f, clearOk),
                  "PRODUCT_COMMENT", f, clearOk),
               Tail(replies), clearOk)

\* what the database does with the replies of a row that deleteMany removes:
\* it leaves them, removes them too, or rejects the deleteMany
OrphanRules == {"keep", "cascade", "reject"}

\* ReviewService.delete(id, userId, isAdmin)
DeleteReview(id, userId, isAdmin) ==
    IF id \notin DOMAIN reviews
    THEN /\ last' = Done("deleteReview", userId, "NotFound")
         /\ Quiet
         /\ UNCHANGED <<notifications, nextId, cache, domainVars, userStatus,
                        faults, sockets, userSockets>>
    ELSE IF ~isAdmin /\ reviews[id].userId # userId
    THEN /\ last' = Done("deleteReview", userId, "Forbidden")
         /\ Quiet
         /\ UNCHANGED <<notifications, nextId, cache, domainVars, userStatus,
                        faults, sockets, userSockets>>
    ELSE \E clearOk \in ClearOutcomes, rule \in OrphanRules :
        LET review == reviews[id]
            replies == RepliesOf(reviews, id)
            gone == {id} \cup Range(replies)
            deeper == Descendants(reviews, id) \ Range(replies)
            rejected == rule = "reject" /\ deeper # {}
            likes == [k \in {k \in DOMAIN reviewLike : k[1] \notin gone}
                        |-> reviewLike[k]]
            w1 == retractReplies(World, replies, clearOk)
            removed == IF rule = "cascade" THEN gone \cup deeper ELSE gone
            own == [reviewId |-> id]
            w2 == deleteByMetadataIn(
                     deleteByMetadataIn(
                        deleteByMetadataIn(
                           [w1 EXCEPT !.effs = w1.effs \o
                               (IF replies = <<>> THEN <<>>
                                ELSE <<ReviewEff("removeReview", replies)>>)],
                           "REVIEW_LIKE", own, clearOk),
                        "REVIEW_REPLY", own, clearOk),
                     "PRODUCT_COMMENT", own, clearOk)
            w3 == IF review.parentId # NoParent
                  THEN deleteByMetadataIn(w2, "REVIEW_REPLY",
                          [parentId |-> review.parentId, reviewId |-> id],
                          clearOk)
                  ELSE w2
            w4 == [w3 EXCEPT
                     !.cache = delPattern(w3.cache,
                                          <<"reviews:product", review.productId>>,
                                          clearOk),
                     !.effs = w3.effs \o
                        <<ReviewEff("removeReview", <<id>>),
                          emitReviewDeleted(review.productId, id)>>]
        IN /\ reviewLike' = likes
           /\ reviews' = IF rejected THEN reviews
                         ELSE [r \in DOMAIN reviews \ removed |-> reviews[r]]
           /\ Becomes(IF rejected THEN w1 ELSE w4)
           /\ last' = [Done("deleteReview", userId,
                            IF rejected THEN "PrismaError" ELSE "ok") EXCEPT
                          !.filter = own,
                          !.result = review]
           /\ UNCHANGED <<calls, productReaction, devToolsLog, savedProduct,
                          nextReview, olderLog, importJobs, userStatus,
                          faults, sockets, userSockets>>

(***************************************************************************)
(* DevToolsService: detections of one day, warning and automatic lock.     *)
(***************************************************************************)
WARNING_THRESHOLD == 10
LOCK_THRESHOLD == 15

\* a userId that prisma.user.findUnique does not find
NoUser == "u0"

\* ${count} inside a notification text
CountText(count) == <<"count", count>>

\* NotificationService.sendWarning(userId, count)
sendWarning(w, userId, count, clearOk) ==
    createIn(w, Dto(userId, "WARNING", "securityWarning",
                    <<"devtoolsWarning", CountText(count)>>, NullMeta),
             clearOk)

\* NotificationService.sendAccountLocked(userId)
sendAccountLocked(w, userId, clearOk) ==
    createIn(w, Dto(userId, "ACCOUNT_LOCKED", "accountLocked",
                    <<"accountLocked">>, NullMeta),
             clearOk)

RECURSIVE notifyAdminUserWarning(_, _, _, _, _, _)
\* for (const adminId of adminIds) await this.create({... SYSTEM ...})
notifyAdminUserWarning(w, adminIds, username, count, userId, clearOk) ==
    IF adminIds = <<>> THEN w
    ELSE notifyAdminUserWarning(
            createIn(w, Dto(adminIds[1], "SYSTEM", "userWarned",
                            <<"userWarned", username, CountText(count)>>,
                            Meta([targetUserId |-> userId])),
                     clearOk),
            Tail(adminIds), username, count, userId, clearOk)

RECURSIVE notifyAdminUserLocked(_, _, _, _, _)
\* for (const adminId of adminIds) await this.create({... SYSTEM ...})
notifyAdminUserLocked(w, adminIds, username, userId, clearOk) ==
    IF adminIds = <<>> THEN w
    ELSE notifyAdminUserLocked(
            createIn(w, Dto(adminIds[1], "SYSTEM", "userLocked",
                            <<"userLocked", username>>,
                            Meta([targetUserId |-> userId])),
                     clearOk),
            Tail(adminIds), username, userId, clearOk)

\* DevToolsService.sendWarning: the user first, then every admin
devToolsSendWarning(w, userId, username, count, clearOk) ==
    notifyAdminUserWarning(sendWarning(w, userId, count, clearOk),
                           getAdminIds, username, count, userId, clearOk)

\* prisma.user.update({ where: { id }, data: { status } })
StatusEff(userId, status) ==
    [kind |-> "status", event |-> status, room |-> UserRoom(userId),
     ids |-> <<>>, dto |-> <<>>]

\* DevToolsService.lockUser: the status update, the accountBanned event, the
\* user's notification, then every admin's
devToolsLockUser(w, userId, username, clearOk) ==
    notifyAdminUserLocked(
        sendAccountLocked([w EXCEPT !.effs = w.effs \o
                                       <<StatusEff(userId, "BANNED"),
                                         emitAccountBanned(userId)>>],
                          userId, clearOk),
        getAdminIds, username, userId, clearOk)

\* a warning that is sent at every count from the warning threshold on
ShouldWarn_UntilLock(todayCount) ==
    todayCount >= WARNING_THRESHOLD /\ todayCount < LOCK_THRESHOLD

\* else if (todayCount >= WARNING_THRESHOLD && todayCount < LOCK_THRESHOLD)
\*    if (todayCount === WARNING_THRESHOLD)
ShouldWarn(todayCount) ==
    /\ todayCount >= WARNING_THRESHOLD /\ todayCount < LOCK_THRESHOLD
    /\ todayCount = WARNING_THRESHOLD

\* a lock that waits for the count to pass the threshold
ShouldLock_Above(todayCount) == todayCount > LOCK_THRESHOLD

\* if (todayCount >= LOCK_THRESHOLD)
ShouldLock(todayCount) == todayCount >= LOCK_THRESHOLD

\* a check that lets banned users through
IsBanned_Never(status) == FALSE

\* if (user.status === 'BANNED') throw new ForbiddenException(...)
IsBanned(status) == status = "BANNED"

\* a count over the entries of every day
countSince_AllDays(today, older, userId) == today[userId] + older[userId]

\* prisma.devToolsLog.count({ where: { userId, createdAt: { gte: todayStart } } })
\* with todayStart the local midnight before now: the entries in today
countSince(today, older, userId) == today[userId]

\* logDetection(userId, dto)
LogDetection(userId) ==
    IF userId \notin UserIds
    THEN /\ last' = Done("logDetection", userId, "ok")
         /\ Quiet
         /\ UNCHANGED <<notifications, nextId, cache, domainVars, userStatus,
                        faults, sockets, userSockets>>
    ELSE IF IsBanned(userStatus[userId])
    THEN /\ last' = Done("logDetection", userId, "Forbidden")
         /\ Quiet
         /\ UNCHANGED <<notifications, nextId, cache, domainVars, userStatus,
                        faults, sockets, userSockets>>
    ELSE \E clearOk \in ClearOutcomes, f \in Failures :
        LET logged == [devToolsLog EXCEPT ![userId] = @ + 1]
            todayCount == countSince(logged, olderLog, userId)
            w1 == IF ShouldLock(todayCount)
                  THEN devToolsLockUser(WorldOf(f), userId, Username(userId),
                                        clearOk)
                  ELSE IF ShouldWarn(todayCount)
                  THEN devToolsSendWarning(WorldOf(f), userId, Username(userId),
                                           todayCount, clearOk)
                  ELSE WorldOf(f)
            w2 == Then(w1, [w1 EXCEPT
                     !.cache = delPattern(w1.cache, <<"devtools:frequent">>,
                                          clearOk)])
        IN /\ devToolsLog' = logged
           /\ userStatus' = IF ShouldLock(todayCount)
                            THEN [userStatus EXCEPT ![userId] = "BANNED"]
                            ELSE userStatus
           /\ Becomes(w2)
           /\ last' = [Done("logDetection", userId, w2.error) EXCEPT
                          !.failures = f,
                          !.result = [todayCount |-> todayCount]]
           /\ UNCHANGED <<calls, productReaction, reviewLike, faults, sockets,
                          userSockets, tables>>

\* the local day ends: today's entries are now entries of an earlier day
Midnight ==
    /\ olderLog' = [u \in UserIds |-> olderLog[u] + devToolsLog[u]]
    /\ devToolsLog' = [u \in UserIds |-> 0]
    /\ Quiet
    /\ last' = Done("midnight", "", "ok")
    /\ UNCHANGED <<notifications, nextId, cache, userStatus, faults, sockets,
                   userSockets, calls, productReaction, reviewLike,
                   savedProduct, reviews, nextReview, importJobs>>

(***************************************************************************)
(* logDetection, one step per awaited statement.                           *)
(***************************************************************************)
DetectCall(userId) ==
    [op |-> "logDetection", pc |-> "find", userId |-> userId,
     status |-> "running", todayCount |-> 0, did |-> <<>>]

StartDetect(userId) ==
    /\ calls' = Append(calls, DetectCall(userId))
    /\ UNCHANGED <<notifications, nextId, cache, userStatus, faults, sockets,
                   userSockets, effects, received, last, productReaction,
                   reviewLike, devToolsLog, tables>>

\* const user = await this.prisma.user.findUnique(...); a banned user is
\* rejected
DetectFind(c) ==
    /\ calls[c].op = "logDetection" /\ calls[c].pc = "find"
    /\ calls' = IF IsBanned(userStatus[calls[c].userId])
                THEN [Advance(c, "done") EXCEPT ![c].status = "Forbidden"]
                ELSE Advance(c, "log")
    /\ UNCHANGED <<notifications, nextId, cache, userStatus, faults, sockets,
                   userSockets, effects, received, last, productReaction,
                   reviewLike, devToolsLog, tables>>

\* await this.prisma.devToolsLog.create(...)
DetectLog(c) ==
    /\ calls[c].op = "logDetection" /\ calls[c].pc = "log"
    /\ devToolsLog' = [devToolsLog EXCEPT ![calls[c].userId] = @ + 1]
    /\ calls' = Advance(c, "count")
    /\ UNCHANGED <<notifications, nextId, cache, userStatus, faults, sockets,
                   userSockets, effects, received, last, productReaction,
                   reviewLike, tables>>

\* const todayCount = await this.prisma.devToolsLog.count(...)
DetectCount(c) ==
    /\ calls[c].op = "logDetection" /\ calls[c].pc = "count"
    /\ calls' = [Advance(c, "act") EXCEPT
                    ![c].todayCount =
                       countSince(devToolsLog, olderLog, calls[c].userId)]
    /\ UNCHANGED <<notifications, nextId, cache, userStatus, faults, sockets,
                   userSockets, effects, received, last, productReaction,
                   reviewLike, devToolsLog, tables>>

\* the threshold checks with lockUser or sendWarning, invalidateCache, return
DetectAct(c) ==
    LET userId == calls[c].userId
        todayCount == calls[c].todayCount
        w == IF ShouldLock(todayCount)
             THEN devToolsLockUser(World, userId, Username(userId), TRUE)
             ELSE IF ShouldWarn(todayCount)
             THEN devToolsSendWarning(World, userId, Username(userId),
                                      todayCount, TRUE)
             ELSE World
    IN /\ calls[c].op = "logDetection" /\ calls[c].pc = "act"
       /\ userStatus' = IF ShouldLock(todayCount)
                        THEN [userStatus EXCEPT ![userId] = "BANNED"]
                        ELSE userStatus
       /\ notifications' = w.rows
       /\ nextId' = w.nextId
       /\ cache' = delPattern(w.cache, <<"devtools:frequent">>, TRUE)
       /\ effects' = effects \o w.effs
       /\ calls' = [Advance(c, "done") EXCEPT ![c].status = "ok"]
       /\ UNCHANGED <<faults, sockets, userSockets, received, last,
                      productReaction, reviewLike, devToolsLog, tables>>

(***************************************************************************)
(* Initial state: empty tables, empty cache, nobody connected.             *)
(***************************************************************************)
InitBase ==
    /\ notifications = {}
    /\ nextId = 1
    /\ cache = EmptyCache
    /\ userStatus = [u \in UserIds |-> "NORMAL"]
    /\ sockets = [s \in Sockets |-> NoSocket]
    /\ userSockets = <<>>
    /\ effects = <<>>
    /\ received = [s \in Sockets |-> <<>>]
    /\ last = NoLast
    /\ calls = <<>>
    /\ productReaction = {}
    /\ reviewLike = <<>>
    /\ devToolsLog = [u \in UserIds |-> 0]
    /\ savedProduct = {}
    /\ reviews = SeedReviews
    /\ nextReview = 1
    /\ olderLog = [u \in UserIds |-> 0]
    /\ importJobs = <<>>

(***************************************************************************)
(* Spec: the notification store behind its cache, one call at a time.      *)
(***************************************************************************)
StoreUsers == MemberIds
StoreTypes == {"PRODUCT_LIKE"}
StoreMetas == {Meta([productId |-> "p1"])}
StoreFilters == {[productId |-> "p1"]}
Limits == {2}
Pages == 1..MaxPage

Init == InitBase /\ faults = {}

Next ==
    \/ \E u \in StoreUsers, t \in StoreTypes, m \in StoreMetas :
          nextId <= MaxNotifs /\ Create(Dto(u, t, "title", <<"content">>, m))
    \/ \E u \in StoreUsers, p \in Pages, l \in Limits : FindByUser(u, p, l)
    \/ \E u \in StoreUsers : GetUnreadCount(u)
    \/ \E u \in StoreUsers, id \in 0..MaxNotifs, all \in BOOLEAN :
          MarkAsRead(u, id, all)
    \/ \E u \in StoreUsers, id \in 1..MaxNotifs : Delete(u, id)
    \/ \E t \in StoreTypes, f \in StoreFilters : DeleteByMetadata(t, f)
    \/ CacheExpire

Spec == Init /\ [][Next]_vars

(***************************************************************************)
(* SpecMeta: deleteByMetadata over rows of several types, owners and       *)
(* metadata objects.                                                       *)
(***************************************************************************)
\* notifications ever created in one behaviour of SpecMeta
MaxMetaNotifs == 2

MetaTypes == {"PRODUCT_LIKE", "REVIEW_LIKE"}
MetaMetas ==
    {NullMeta, Meta([productId |-> "p1"]), Meta([productId |-> "p2"]),
     Meta([productId |-> "p1", reviewId |-> "r1"])}
MetaFilters ==
    {<<>>, [productId |-> "p1"], [productId |-> "p1", reviewId |-> "r1"]}

NextMeta ==
    \/ \E u \in MemberIds, t \in MetaTypes, m \in MetaMetas :
          nextId <= MaxMetaNotifs /\ Create(Dto(u, t, "title", <<"content">>, m))
    \/ \E t \in MetaTypes, f \in MetaFilters : DeleteByMetadata(t, f)
    \/ \E u \in MemberIds : GetUnreadCount(u)

SpecMeta == Init /\ [][NextMeta]_vars

(***************************************************************************)
(* Properties of the store.                                                *)
(***************************************************************************)
\* C1: after create for U, getUnreadCount(U) returns its previous value plus
\* exactly 1 and the new notification is the first item of
\* findByUser(U, 1, limit), also when U's count and listings were cached.
C1_CreateIsVisible ==
    [][\A u \in StoreUsers :
          (last'.op = "create" /\ last'.userId = u) =>
             /\ getUnreadCountResult(notifications', cache', u)
                   = getUnreadCountResult(notifications, cache, u) + 1
             /\ \A l \in Limits :
                   LET r == findByUserResult(notifications', cache', u, 1, l)
                   IN /\ Len(r.data) >= 1
                      /\ r.data[1].id = last'.id
                      /\ r.data[1].id \notin {n.id : n \in notifications}]_vars

\* a create for a user whose count and listing were cached and who already
\* owned a notification
C1_Witness ==
    /\ last.op = "create"
    /\ last.cached
    /\ Cardinality({n \in notifications : n.userId = last.userId}) >= 2

\* the rows deleteByMetadata(type, filter) is to remove
SupersetMatches(rows, type, filter) ==
    {n \in rows : /\ n.type = type
                  /\ ~n.metadata.null
                  /\ \A key \in DOMAIN filter :
                        /\ key \in DOMAIN n.metadata.kv
                        /\ n.metadata.kv[key] = filter[key]}

\* C6: deleteByMetadata(T, F) removes exactly the notifications of type T
\* whose metadata has every key of F with an equal value, and no others.
C6_DeletesExactlyMatches ==
    [][last'.op = "deleteByMetadata" =>
          /\ notifications' \subseteq notifications
          /\ notifications \ notifications'
                = SupersetMatches(notifications, last'.type, last'.filter)]_vars

\* a call that removed one row and kept a row of the same type whose
\* metadata differs, a row without metadata and a row of another type
C6_Witness ==
    /\ last.op = "deleteByMetadata"
    /\ effects # <<>>
    /\ \E n \in notifications : n.type = last.type /\ ~n.metadata.null

\* C7: a second deleteByMetadata with the same type and filter, nothing
\* created in between, deletes nothing, leaves the store as it is and emits
\* no notificationDeleted event.
C7_SecondCallDeletesNothing ==
    [][(/\ last.op = "deleteByMetadata"
        /\ last'.op = "deleteByMetadata"
        /\ last'.type = last.type
        /\ last'.filter = last.filter) =>
          /\ notifications' = notifications
          /\ effects' = <<>>
          /\ \A s \in Sockets : received'[s] = <<>>]_vars

\* the second of two equal calls, the first of which deleted something
C7_Witness == last.op = "deleteByMetadata" /\ last.again

DeletedEmits(effs, userId) ==
    SelectSeq(effs, LAMBDA e : /\ IsEmit(e)
                               /\ e.event = "notificationDeleted"
                               /\ e.room = UserRoom(userId))

\* C8: deleteByMetadata emits one notificationDeleted per owner of a deleted
\* notification, naming exactly the deleted ids of that owner, none to other
\* users, and each owner's cache is invalidated before the owner's event.
C8_OneEventPerOwner ==
    [][last'.op = "deleteByMetadata" =>
          LET D == notifications \ notifications'
          IN /\ \A e \in Range(effects') :
                   IsEmit(e) => /\ e.event = "notificationDeleted"
                                /\ \E u \in UserIds : e.room = UserRoom(u)
             /\ \A u \in UserIds :
                   LET mine == {n.id : n \in {m \in D : m.userId = u}}
                       evs == DeletedEmits(effects', u)
                   IN IF mine = {} THEN evs = <<>>
                      ELSE /\ Len(evs) = 1
                           /\ Range(evs[1].ids) = mine
                           /\ Len(evs[1].ids) = Cardinality(mine)
                           /\ u \notin DOMAIN cache'.unread
                           /\ \A k \in DOMAIN cache'.list : k[1] # u
                           /\ \E i, j \in 1..Len(effects') :
                                 /\ i < j
                                 /\ effects'[i] = InvalidateEff(u)
                                 /\ effects'[j] = evs[1]]_vars

\* a call that deleted notifications of two owners
C8_Witness ==
    /\ last.op = "deleteByMetadata"
    /\ Len(SelectSeq(effects, IsEmit)) = 2

(***************************************************************************)
(* SpecPresence: sockets connect and disconnect while notifications are    *)
(* created, retracted and accounts are locked.                             *)
(***************************************************************************)
\* notifications ever created in one behaviour of SpecPresence
MaxPushNotifs == 1

PresenceUsers == MemberIds
Tokens == {NoToken, BadToken} \cup {TokenOf(u) : u \in PresenceUsers}

NextPresence ==
    \/ \E s \in Sockets, token \in Tokens : HandleConnection(s, token)
    \/ \E s \in Sockets : HandleDisconnect(s)
    \/ \E u \in PresenceUsers :
          /\ nextId <= MaxPushNotifs
          /\ Create(Dto(u, "PRODUCT_LIKE", "title", <<"content">>,
                        Meta([productId |-> "p1"])))
    \/ DeleteByMetadata("PRODUCT_LIKE", [productId |-> "p1"])
    \/ \E u \in PresenceUsers : LockUser(u)

SpecPresence == Init /\ [][NextPresence]_vars

\* the connected sockets whose handshake token verified as the user
LiveSocketsOf(userId) ==
    {s \in Sockets : sockets[s].connected /\ sockets[s].userId = userId}

NotificationEmits(effs) ==
    SelectSeq(effs, LAMBDA e : IsEmit(e) /\ e.event = "notification")

\* C4: a create for U makes exactly one 'notification' emission, to the room
\* user:U; every authenticated connected socket of U receives it exactly
\* once, whatever their number, and no other socket receives it.
C4_OneEmitPerCreate ==
    [][last'.op = "create" =>
          LET u == last'.userId
              emits == NotificationEmits(effects')
          IN /\ Len(emits) = 1
             /\ emits[1].room = UserRoom(u)
             /\ emits[1].ids = <<last'.id>>
             /\ \A s \in Sockets :
                   received'[s] = IF s \in LiveSocketsOf(u) THEN <<emits[1]>>
                                  ELSE <<>>]_vars

\* a create for a user with three live sockets
C4_Witness ==
    /\ last.op = "create"
    /\ Cardinality(LiveSocketsOf(last.userId)) = 3
    /\ \A s \in LiveSocketsOf(last.userId) : Len(received[s]) = 1

NoLiveSockets(userId) == RoomMembers(sockets, UserRoom(userId)) = {}

\* C5: a push to a user without live connections is a silent no-op: the
\* handler (create, deleteByMetadata, lockUser) completes without error,
\* its effect is persisted and nobody receives the event.
C5_PushWithoutPresence ==
    [][/\ (last'.op = "create" /\ NoLiveSockets(last'.userId)) =>
             /\ last'.status = "ok"
             /\ \E n \in notifications' : n.id = last'.id /\ n.userId = last'.userId
             /\ \A s \in Sockets : received'[s] = <<>>
       /\ (last'.op = "lockUser" /\ NoLiveSockets(last'.userId)) =>
             /\ last'.status = "ok"
             /\ userStatus'[last'.userId] = "BANNED"
             /\ \A s \in Sockets : received'[s] = <<>>
       /\ (last'.op = "deleteByMetadata"
             /\ \A e \in Range(effects') : IsEmit(e) =>
                   RoomMembers(sockets, e.room) = {}) =>
             /\ last'.status = "ok"
             /\ ~\E n \in notifications' :
                   /\ n.type = last'.type
                   /\ matchesMetadata(n.metadata, last'.filter)
             /\ \A s \in Sockets : received'[s] = <<>>]_vars

\* a notificationDeleted pushed to a user who has no live connection
C5_Witness ==
    /\ last.op = "deleteByMetadata"
    /\ \E e \in Range(effects) : IsEmit(e) /\ RoomMembers(sockets, e.room) = {}
    /\ \E s \in Sockets : sockets[s].connected

(***************************************************************************)
(* SpecConc: creates and readers of one user interleave at their awaits;   *)
(* SpecFaulty is the same with collaborators that may fail.                *)
(***************************************************************************)
\* calls started in one behaviour
MaxCalls == 3

ConcUsers == {"u1"}
\* every notification of the behaviour fits on page 1
ConcLimit == MaxCalls

NextConc ==
    \/ \E u \in ConcUsers : Len(calls) < MaxCalls /\ StartCreate(u)
    \/ \E u \in ConcUsers :
          Len(calls) < MaxCalls /\ StartFindByUser(u, 1, ConcLimit)
    \/ \E u \in ConcUsers : Len(calls) < MaxCalls /\ StartGetUnreadCount(u)
    \/ \E c \in DOMAIN calls :
          \/ CreatePersist(c)
          \/ CreateDelPattern(c)
          \/ CreateDel(c)
          \/ CreateEmit(c)
          \/ FindGet(c)
          \/ FindRows(c)
          \/ FindCount(c)
          \/ FindSet(c)
          \/ UnreadGet(c)
          \/ UnreadCount(c)
          \/ UnreadSet(c)

SpecConc == Init /\ [][NextConc]_vars

\* every collaborator may fail, or not, at each of its calls
InitFaulty == InitBase /\ faults = {"store", "clear", "del"}

\* creates against one listing reader
NextFaulty ==
    \/ \E u \in ConcUsers : Len(calls) < MaxCalls /\ StartCreate(u)
    \/ \E u \in ConcUsers :
          Len(calls) < MaxCalls /\ StartFindByUser(u, 1, ConcLimit)
    \/ \E c \in DOMAIN calls :
          \/ CreatePersist(c)
          \/ CreateDelPattern(c)
          \/ CreateDel(c)
          \/ CreateEmit(c)
          \/ FindGet(c)
          \/ FindRows(c)
          \/ FindCount(c)
          \/ FindSet(c)

SpecFaulty == InitFaulty /\ [][NextFaulty]_vars

IsPrefix(s, t) == Len(s) <= Len(t) /\ \A i \in 1..Len(s) : s[i] = t[i]

\* C2: within one create the steps are persist, then invalidate (delPattern,
\* del), then push: a 'notification' event is emitted only for a stored row
\* and after the owner's invalidation, and a create whose persist failed
\* neither invalidates nor pushes.
C2_PersistInvalidatePush ==
    /\ \A c \in DOMAIN calls :
          calls[c].op = "create" =>
             /\ IsPrefix(calls[c].did, <<"persist", "delPattern", "del", "emit">>)
             /\ ("persist" \notin Range(calls[c].did)) => calls[c].id = 0
    /\ \A j \in 1..Len(effects) :
          (IsEmit(effects[j]) /\ effects[j].event = "notification") =>
             /\ \E n \in notifications : <<n.id>> = effects[j].ids
             /\ \E i, k \in 1..j :
                   /\ i < k /\ k < j
                   /\ effects[i] = PersistEff(effects[j].ids[1])
                   /\ effects[k].kind = "invalidate"
                   /\ effects[k].room = effects[j].room
    /\ Len(SelectSeq(effects, IsEmit))
          = Cardinality({c \in DOMAIN calls : /\ calls[c].op = "create"
                                              /\ "emit" \in Range(calls[c].did)})
    /\ Len(SelectSeq(effects, LAMBDA e : e.kind = "persist")) = nextId - 1

\* one create has pushed and another has failed at its persist
C2_Witness ==
    /\ \E c \in DOMAIN calls :
          /\ calls[c].op = "create"
          /\ calls[c].did = <<"persist", "delPattern", "del", "emit">>
    /\ \E c \in DOMAIN calls :
          /\ calls[c].op = "create"
          /\ calls[c].pc = "failed"
          /\ calls[c].did = <<>>

\* C3: a findByUser(U, 1, limit) started after the 'notification' push of N
\* returns a listing that contains N, under every interleaving.
C3_PushedIsListed ==
    \A c \in DOMAIN calls :
        (calls[c].op = "findByUser" /\ calls[c].pc = "done") =>
            calls[c].seen \subseteq
                {calls[c].result[1].data[i].id :
                    i \in 1..Len(calls[c].result[1].data)}

(***************************************************************************)
(* SpecReact: users react to one product and to one review.                *)
(***************************************************************************)
\* notifications created in one behaviour of SpecReact
MaxReactNotifs == 4

Reactors == {"u1", "u2", "admin1"}

NextReact ==
    \/ \E p \in ProductIds \cup {NoProduct}, u \in Reactors :
          /\ nextId + Len(getAdminIds) - 1 <= MaxReactNotifs
          /\ ToggleReaction(p, u)
    \/ \E r \in ReviewIds \cup {NoReview}, u \in Reactors, isLike \in BOOLEAN :
          /\ nextId <= MaxReactNotifs
          /\ LikeReview(r, u, isLike)

SpecReact == Init /\ [][NextReact]_vars

\* the handler that just ran took back or replaced a reaction its user held
Reversal ==
    /\ last'.op \in {"toggleReaction", "likeReview"}
    /\ last'.status = "ok"
    /\ last'.existing

\* the notifications in rows that the reaction of last'.userId created
OfReaction(rows) ==
    {n \in rows : /\ n.type = last'.type
                  /\ ~n.metadata.null
                  /\ \A k \in DOMAIN last'.filter :
                        MetaGet(n.metadata, k) = last'.filter[k]
                  /\ n.content[1] = Username(last'.userId)}

\* C9: with any number of users holding reactions on the same product or
\* comment, taking a reaction back removes the notification that reaction
\* created, and the notificationDeleted events name its id and no other.
C9_ReversalNamesOnlyItsOwn ==
    [][Reversal =>
         /\ OfReaction(notifications) \cap notifications' = {}
         /\ \A i \in 1..Len(effects') :
               effects'[i].event = "notificationDeleted" =>
                  Range(effects'[i].ids)
                     \subseteq {n.id : n \in OfReaction(notifications)}
    ]_vars

(***************************************************************************)
(* SpecEsc: detections of two users within one day, and an admin who       *)
(* unlocks.                                                                *)
(***************************************************************************)
\* detections logged for one user in one behaviour
MaxDetections == 16

EscUsers == MemberIds

NextEsc ==
    \/ \E u \in EscUsers \cup {NoUser} :
          /\ u \in EscUsers => devToolsLog[u] < MaxDetections
          /\ LogDetection(u)
    \/ \E u \in EscUsers : userStatus[u] = "BANNED" /\ UnlockUser(u)
    \/ \E u \in EscUsers : userStatus[u] = "NORMAL" /\ LockUser(u)

SpecEsc == Init /\ [][NextEsc]_vars

\* the rows a step has added to the store
Added == notifications' \ notifications

FirstIndex(effs, Test(_)) ==
    IF \E i \in 1..Len(effs) : Test(effs[i])
    THEN CHOOSE i \in 1..Len(effs) :
            Test(effs[i]) /\ \A j \in 1..(i - 1) : ~Test(effs[j])
    ELSE 0

\* C11: the logDetection call that brings a non-banned user's count of today
\* to 15 sets the status to BANNED first, then emits one accountBanned event
\* to the user, and creates exactly one ACCOUNT_LOCKED notification for the
\* user and one SYSTEM notification per admin that refers to the user; after
\* every logDetection that completes with a count of 15 or more the stored
\* status is BANNED.
C11_LockAtFifteen ==
    [][\A u \in UserIds :
          devToolsLog'[u] = devToolsLog[u] + 1 =>
             /\ devToolsLog'[u] = 15 =>
                   /\ Len(effects') >= 2
                   /\ effects'[1] = StatusEff(u, "BANNED")
                   /\ effects'[2] = emitAccountBanned(u)
                   /\ Len(SelectSeq(effects',
                                    LAMBDA e : e.event = "accountBanned")) = 1
                   /\ FirstIndex(effects', LAMBDA e : e.kind = "persist") > 2
                   /\ Cardinality({n \in Added : /\ n.type = "ACCOUNT_LOCKED"
                                                 /\ n.userId = u}) = 1
                   /\ \A a \in AdminIds :
                         Cardinality({n \in Added :
                                         /\ n.type = "SYSTEM"
                                         /\ n.userId = a
                                         /\ MetaGet(n.metadata, "targetUserId") = u})
                            = 1
                   /\ Cardinality(Added) = 1 + Cardinality(AdminIds)
             /\ devToolsLog'[u] >= 15 => userStatus'[u] = "BANNED"
    ]_vars

\* the fifteenth detection of a user has just locked the account
C11_Witness ==
    \E u \in EscUsers :
        /\ last.op = "logDetection" /\ last.userId = u /\ last.status = "ok"
        /\ devToolsLog[u] = 15
        /\ userStatus[u] = "BANNED"
        /\ \E n \in notifications : n.type = "ACCOUNT_LOCKED" /\ n.userId = u

\* C12: logDetection for a user whose status is BANNED fails with Forbidden
\* and changes nothing: no log entry, no notification, no push, and the
\* status stays BANNED.
C12_BannedIsRejected ==
    [][\A u \in UserIds :
          (/\ last'.op = "logDetection"
           /\ last'.userId = u
           /\ userStatus[u] = "BANNED") =>
             /\ last'.status = "Forbidden"
             /\ devToolsLog' = devToolsLog
             /\ notifications' = notifications
             /\ nextId' = nextId
             /\ effects' = <<>>
             /\ \A s \in Sockets : received'[s] = <<>>
             /\ userStatus'[u] = "BANNED"
    ]_vars

\* a locked user's next detection has been rejected
C12_Witness ==
    \E u \in EscUsers :
        /\ last.op = "logDetection" /\ last.userId = u
        /\ last.status = "Forbidden"
        /\ userStatus[u] = "BANNED"
        /\ devToolsLog[u] = 15

\* the escalation notifications about a user: the user's WARNING and
\* ACCOUNT_LOCKED rows and the admins' SYSTEM rows that refer to the user
EscalationRows(rows, u) ==
    {n \in rows :
        \/ n.userId = u /\ n.type \in {"WARNING", "ACCOUNT_LOCKED"}
        \/ n.type = "SYSTEM" /\ MetaGet(n.metadata, "targetUserId") = u}

\* C13: over logDetection calls and admin lockUser / unlockUser calls of one
\* day, once the escalation has locked a user no further WARNING,
\* ACCOUNT_LOCKED or admin SYSTEM notification about that user is created.
C13_LockIsTerminal ==
    [][\A u \in UserIds :
          (\E n \in notifications : n.type = "ACCOUNT_LOCKED" /\ n.userId = u)
             => EscalationRows(Added, u) = {}
    ]_vars

\* C14: after markAsRead(U, all = true), getUnreadCount(U) returns 0 and no
\* notification of U is unread, also when an unread count of U was cached
\* before the call; the notifications of other users keep their read flags.
C14_MarkAllReadsAll ==
    [][(/\ last'.op = "markAsRead" /\ last'.all) =>
          LET u == last'.userId
          IN /\ last'.status = "ok"
             /\ getUnreadCountResult(notifications', cache', u) = 0
             /\ \A n \in notifications' : n.userId = u => n.isRead
             /\ {n \in notifications' : n.userId # u}
                   = {n \in notifications : n.userId # u}
             /\ {n.id : n \in notifications'} = {n.id : n \in notifications}
    ]_vars

\* markAsRead(U, all = true) has flipped a row of U whose unread count was
\* cached, while another user holds an unread row
C14_Witness ==
    /\ last.op = "markAsRead" /\ last.all /\ last.cached
    /\ last.result # <<>> /\ last.result[1] > 0
    /\ \E n \in notifications : n.userId # last.userId /\ ~n.isRead

\* the ids of the rows that are read
ReadIds(rows) == {n.id : n \in {m \in rows : m.isRead}}

\* C15: markAsRead(U, id) without all fails with NotFound when no
\* notification has the id and with Forbidden when another user owns it, and
\* then no read flag changes; when U owns it, that notification becomes read
\* and no other.
C15_MarkOneChecksOwner ==
    [][(/\ last'.op = "markAsRead" /\ ~last'.all /\ last'.id # NoId) =>
          LET u == last'.userId
              found == {n \in notifications : n.id = last'.id}
          IN /\ found = {} =>
                   last'.status = "NotFound" /\ notifications' = notifications
             /\ (\E n \in found : n.userId # u) =>
                   last'.status = "Forbidden" /\ notifications' = notifications
             /\ (\E n \in found : n.userId = u) =>
                   /\ last'.status = "ok"
                   /\ ReadIds(notifications') = ReadIds(notifications) \cup {last'.id}
                   /\ {[n EXCEPT !.isRead = TRUE] : n \in notifications'}
                         = {[n EXCEPT !.isRead = TRUE] : n \in notifications}
    ]_vars

\* markAsRead(U, id) was refused for a notification that another user owns
\* and that is still unread
C15_Witness ==
    /\ last.op = "markAsRead" /\ ~last.all /\ last.status = "Forbidden"
    /\ \E n \in notifications :
          n.id = last.id /\ n.userId # last.userId /\ ~n.isRead
    /\ \E n \in notifications : n.userId = last.userId /\ n.isRead

\* C16: a markAsRead call that supplies neither all = true nor a
\* notificationId is not accepted as a successful operation.
C16_MarkNeedsTarget ==
    (last.op = "markAsRead" /\ ~last.all /\ last.id = NoId)
        => last.status # "ok"

\* C17: delete(U, id) removes exactly the notification id when U owns it; it
\* fails with NotFound when there is none and with Forbidden when another
\* user owns it, and then the store and the cache are unchanged.
C17_DeleteChecksOwner ==
    [][last'.op = "delete" =>
          LET u == last'.userId
              found == {n \in notifications : n.id = last'.id}
          IN /\ found = {} =>
                   /\ last'.status = "NotFound"
                   /\ notifications' = notifications /\ cache' = cache
             /\ (\E n \in found : n.userId # u) =>
                   /\ last'.status = "Forbidden"
                   /\ notifications' = notifications /\ cache' = cache
             /\ (\E n \in found : n.userId = u) =>
                   /\ last'.status = "ok"
                   /\ notifications' = notifications \ found
    ]_vars

\* delete(U, id) was refused for another user's notification while listings
\* and counts were cached
C17_Witness ==
    /\ last.op = "delete" /\ last.status = "Forbidden"
    /\ \E n \in notifications : n.id = last.id /\ n.userId # last.userId
    /\ cache.list # <<>> /\ cache.unread # <<>>

(***************************************************************************)
(* SpecPage: one user's notifications grow to 25 and are read page by page.*)
(***************************************************************************)
\* notifications of the user in one behaviour of SpecPage
MaxPageRows == 25
\* the highest page number a reader asks for
MaxPageNo == 3

PageUser == "u1"
PageSizes == {3, 10}

NextPage ==
    \/ /\ nextId <= MaxPageRows
       /\ Create(Dto(PageUser, "SYSTEM", "title", <<"content">>, NullMeta))
    \/ \E p \in 1..MaxPageNo, l \in PageSizes : FindByUser(PageUser, p, l)

SpecPage == Init /\ [][NextPage]_vars

\* the ids on page p of size l as findByUser returns them
PageIds(p, l) ==
    LET data == findByUserResult(notifications, cache, PageUser, p, l).data
    IN [i \in 1..Len(data) |-> data[i].id]

RECURSIVE PagesUpTo(_, _)
\* the ids of the pages 1..p of size l, one page after the other
PagesUpTo(p, l) == IF p = 0 THEN <<>> ELSE PagesUpTo(p - 1, l) \o PageIds(p, l)

\* C18: for a user with n notifications, page p >= 1 and size s >= 1,
\* findByUser returns the notifications at the positions (p-1)*s+1 ..
\* min(p*s, n) of the creation-time-descending order, total = n and hasMore =
\* (p*s < n); the pages 1..ceil(n/s) together hold every notification once.
C18_PagesPartition ==
    LET n == Cardinality({r \in notifications : r.userId = PageUser})
    IN \A l \in PageSizes :
          LET pages == (n + l - 1) \div l
          IN /\ \A p \in 1..(pages + 1) :
                   LET result == findByUserResult(notifications, cache,
                                                  PageUser, p, l)
                       from == (p - 1) * l + 1
                       to == IF p * l < n THEN p * l ELSE n
                   IN /\ Len(result.data) = (IF to >= from THEN to - from + 1 ELSE 0)
                      /\ \A k \in 1..Len(result.data) :
                            \* ids are handed out in creation order
                            result.data[k].id = n + 1 - (from + k - 1)
                      /\ result.total = n
                      /\ result.hasMore = (p * l < n)
             /\ PagesUpTo(pages, l) = [i \in 1..n |-> n + 1 - i]

\* 25 notifications read at size 10: 10, 10 and 5 items, hasMore true, true,
\* false
C18_Witness ==
    /\ Cardinality(notifications) = 25
    /\ \A p \in 1..3 : ListKey(PageUser, p, 10) \in DOMAIN cache.list
    /\ Len(cache.list[ListKey(PageUser, 1, 10)].data) = 10
    /\ Len(cache.list[ListKey(PageUser, 2, 10)].data) = 10
    /\ Len(cache.list[ListKey(PageUser, 3, 10)].data) = 5
    /\ cache.list[ListKey(PageUser, 1, 10)].hasMore
    /\ cache.list[ListKey(PageUser, 2, 10)].hasMore
    /\ ~cache.list[ListKey(PageUser, 3, 10)].hasMore

(***************************************************************************)
(* SpecReactFaulty: the reactions of SpecReact while prisma and the cache  *)
(* may reject.                                                             *)
(***************************************************************************)
\* notifications created in one behaviour of SpecReactFaulty
MaxFaultyNotifs == 2

FaultyReactors == {"u2"}

NextReactFaulty ==
    \/ \E p \in ProductIds, u \in FaultyReactors :
          /\ nextId + Len(getAdminIds) - 1 <= MaxFaultyNotifs
          /\ ToggleReaction(p, u)
    \/ \E r \in ReviewIds, u \in FaultyReactors, isLike \in BOOLEAN :
          /\ nextId <= MaxFaultyNotifs
          /\ LikeReview(r, u, isLike)

SpecReactFaulty == InitFaulty /\ [][NextReactFaulty]_vars

\* the position of an admin in the fan-out of getAdminIds
AdminIndex(a) == CHOOSE i \in 1..Len(getAdminIds) : getAdminIds[i] = a

\* C19: in a fan-out to the admin ids a1..an, a failure while notifying ai
\* does not block the others: every aj with j # i still gets its
\* notification persisted and pushed.
C19_FanOutIsolatesFailures ==
    [][(/\ last'.op = "toggleReaction"
        /\ last'.status # "NotFound"
        /\ ~last'.existing) =>
          \A a \in AdminIds :
             AdminIndex(a) \notin {last'.failures.store, last'.failures.del} =>
                /\ \E n \in Added : /\ n.userId = a
                                    /\ n.type = "PRODUCT_LIKE"
                /\ \E i \in 1..Len(effects') :
                      /\ effects'[i].event = "notification"
                      /\ effects'[i].room = UserRoom(a)
    ]_vars

\* C20: a failure of the cache invalidation or of the live push during a
\* notification side effect is swallowed: the reaction toggle that caused
\* it completes successfully.
C20_CacheFailureIsSwallowed ==
    last.op \in {"toggleReaction", "likeReview"} => last.status # "CacheError"

(***************************************************************************)
(* SpecProduct: users like and save one product.                           *)
(***************************************************************************)
\* notifications created in one behaviour of SpecProduct
MaxProductNotifs == 8

NextProduct ==
    \/ \E p \in ProductIds \cup {NoProduct}, u \in Reactors :
          /\ nextId + Len(getAdminIds) - 1 <= MaxProductNotifs
          /\ ToggleReaction(p, u)
    \/ \E p \in ProductIds \cup {NoProduct}, u \in Reactors :
          /\ nextId + Len(getAdminIds) - 1 <= MaxProductNotifs
          /\ ToggleSaved(p, u)

SpecProduct == Init /\ [][NextProduct]_vars

\* the handler that just ran took a like or a save of product P back
Undone(op) ==
    /\ last'.op = op
    /\ last'.status = "ok"
    /\ last'.existing

\* the notifications in rows of the last handler's type that name its product
OfProduct(rows) ==
    {n \in rows : /\ n.type = last'.type
                  /\ MetaGet(n.metadata, "productId") = last'.filter.productId}

\* the positions in effs of the broadcasts of event to the product's room
Broadcasts(effs, event) ==
    {i \in 1..Len(effs) : effs[i].kind = "emit" /\ effs[i].event = event}

\* every row of OfProduct is gone, and was removed and announced before the
\* one broadcast at position b
RetractedBefore(b) ==
    /\ OfProduct(notifications') = {}
    /\ \A n \in OfProduct(notifications) :
          \E i \in 1..(b - 1) :
             /\ effects'[i].kind = "remove"
             /\ n.id \in Range(effects'[i].ids)
    /\ \A i \in 1..Len(effects') :
          effects'[i].kind = "remove" \/ effects'[i].event = "notificationDeleted"
             => i < b

\* C21: when toggleReaction (toggleSaved) takes back a like (a save) of product
\* P, every PRODUCT_LIKE (PRODUCT_SAVE) notification naming P is deleted
\* before the productReactionUpdated (productSavedUpdated) broadcast, and the
\* broadcast says reacted=false with the number of reaction rows left on P
\* (saved=false).
C21_RetractThenBroadcast ==
    [][/\ Undone("toggleReaction") =>
            \E b \in 1..Len(effects') :
               /\ Broadcasts(effects', "productReactionUpdated") = {b}
               /\ RetractedBefore(b)
               /\ effects'[b].dto.reacted = FALSE
               /\ effects'[b].dto.count =
                     Cardinality({r \in productReaction' :
                                     r.productId = last'.filter.productId})
       /\ Undone("toggleSaved") =>
            \E b \in 1..Len(effects') :
               /\ Broadcasts(effects', "productSavedUpdated") = {b}
               /\ RetractedBefore(b)
               /\ effects'[b].dto.saved = FALSE
    ]_vars

\* a like and a save were taken back while admins held notifications of
\* several users' likes and saves
C21_Witness ==
    /\ last.op \in {"toggleReaction", "toggleSaved"}
    /\ last.status = "ok"
    /\ last.existing
    /\ \E i \in 1..Len(effects) :
          effects[i].kind = "remove" /\ Len(effects[i].ids) >= 4
    /\ productReaction # {}
    /\ \E n \in notifications : n.type # last.type

\* the handler that just ran switched its user's reaction on a comment of
\* somebody else from like to dislike or back
Switched ==
    /\ last'.op = "likeReview"
    /\ last'.status = "ok"
    /\ last'.existing
    /\ LikeKey(last'.filter.reviewId, last'.userId) \in DOMAIN reviewLike'
    /\ reviewLike[LikeKey(last'.filter.reviewId, last'.userId)]
          # reviewLike'[LikeKey(last'.filter.reviewId, last'.userId)]
    /\ ReviewRow(last'.filter.reviewId).userId # last'.userId

\* the REVIEW_LIKE notifications in rows about reactor's reaction on reviewId
ForReactor(rows, reviewId, reactor) ==
    {n \in rows : /\ n.type = "REVIEW_LIKE"
                  /\ MetaGet(n.metadata, "reviewId") = reviewId
                  /\ n.content[1] = Username(reactor)}

\* C22: when likeReview switches X's reaction on a comment of O (O # X), the
\* notification of the old reaction is deleted before the one of the new
\* reaction is created; afterwards O holds exactly one REVIEW_LIKE
\* notification for X's reaction on the comment, with metadata.isLike equal to
\* the new reaction, and O never holds two for one reactor and comment.
C22_SwitchReplacesNotification ==
    [][Switched =>
         LET r == last'.filter.reviewId
             X == last'.userId
             old == ForReactor(notifications, r, X)
             new == ForReactor(notifications', r, X)
         IN /\ old \cap notifications' = {}
            /\ \A n \in old :
                  \E i, j \in 1..Len(effects') :
                     /\ i < j
                     /\ effects'[i].kind = "remove"
                     /\ n.id \in Range(effects'[i].ids)
                     /\ effects'[j].kind = "persist"
            /\ \A i, j \in 1..Len(effects') :
                  effects'[i].kind = "remove" /\ effects'[j].kind = "persist"
                     => i < j
            /\ Cardinality(new) = 1
            /\ \A n \in new :
                  /\ n.userId = ReviewRow(r).userId
                  /\ MetaGet(n.metadata, "isLike") = JsonBool(reviewLike'[LikeKey(r, X)])
            /\ \A u \in UserIds :
                  Cardinality(ForReactor(notifications', r, u)) <= 1
    ]_vars

\* a reactor switched from like to dislike while the owner held the
\* notification of the like
C22_Witness ==
    /\ last.op = "likeReview"
    /\ last.status = "ok"
    /\ last.existing
    /\ last.result.userReaction = "false"
    /\ \E i, j \in 1..Len(effects) :
          effects[i].kind = "remove" /\ effects[j].kind = "persist"
    /\ \E n \in notifications :
          /\ n.type = "REVIEW_LIKE"
          /\ MetaGet(n.metadata, "isLike") = "false"
          /\ n.content[1] = Username(last.userId)

(***************************************************************************)
(* SpecReview: comments, replies to them, reactions, and their removal.    *)
(***************************************************************************)
\* notifications created before the last reaction to a comment
MaxReviewNotifs == 4

Commenters == {"u1", "u2"}
ReviewContents == {<<"<p>", "o", "k", "<script>">>}

NextReview ==
    \/ \E p \in ProductIds \cup {NoProduct}, u \in Commenters,
          parent \in DOMAIN reviews \cup {NoParent, NoReview},
          content \in ReviewContents :
          /\ nextReview < Len(ReviewPool)
          /\ CreateReview(p, parent, content, u)
    \/ \E r \in DOMAIN reviews \cup {NoReview}, u \in Commenters \cup {"admin1"} :
          DeleteReview(r, u, Role(u) = "ADMIN")
    \/ \E r \in DOMAIN reviews, isLike \in BOOLEAN :
          /\ nextId <= MaxReviewNotifs
          /\ LikeReview(r, "u2", isLike)

SpecReview == Init /\ [][NextReview]_vars

RetractedTypes == {"REVIEW_LIKE", "REVIEW_REPLY", "PRODUCT_COMMENT"}

\* the notifications in rows of the retracted types that name a review of ids
Naming(rows, ids) ==
    {n \in rows : /\ n.type \in RetractedTypes
                  /\ MetaGet(n.metadata, "reviewId") \in ids}

\* ReviewService.delete removed comment C
DeletedComment ==
    /\ last'.op = "deleteReview"
    /\ last'.status = "ok"

\* C23: ReviewService.delete of comment C retracts every REVIEW_LIKE,
\* REVIEW_REPLY and PRODUCT_COMMENT notification naming C before C's row is
\* removed, and does the same for every reply of C, replies of replies
\* included: afterwards no reply of C is left and no notification of these
\* types names C or a review that had C as an ancestor.
C23_DeleteRetractsSubtree ==
    [][DeletedComment =>
         LET C == last'.filter.reviewId
             subtree == {C} \cup Descendants(reviews, C)
         IN /\ \A r \in DOMAIN reviews' : reviews'[r].parentId # C
            /\ Naming(notifications', subtree) = {}
            /\ \A n \in Naming(notifications, {C}) :
                  \E i, j \in 1..Len(effects') :
                     /\ i < j
                     /\ effects'[i].kind = "remove"
                     /\ n.id \in Range(effects'[i].ids)
                     /\ effects'[j].kind = "removeReview"
                     /\ C \in Range(effects'[j].ids)
    ]_vars

(***************************************************************************)
(* SpecOrigin: every handler that notifies about a product or a comment.   *)
(***************************************************************************)
\* notifications created before the last handler of one behaviour of SpecOrigin
MaxOriginNotifs == 4

OriginUsers == {"u2"}

NextOrigin ==
    \/ \E parent \in DOMAIN reviews \cup {NoParent}, u \in Commenters,
          content \in ReviewContents :
          /\ nextReview < Len(ReviewPool)
          /\ CreateReview("p1", parent, content, u)
    \/ \E r \in DOMAIN reviews, u \in OriginUsers, isLike \in BOOLEAN :
          /\ nextId <= MaxOriginNotifs
          /\ LikeReview(r, u, isLike)
    \/ \E u \in OriginUsers :
          /\ nextId <= MaxOriginNotifs
          /\ ToggleReaction("p1", u)
    \/ \E u \in OriginUsers :
          /\ nextId <= MaxOriginNotifs
          /\ ToggleSaved("p1", u)

SpecOrigin == Init /\ [][NextOrigin]_vars

\* the notification names, under key, a value of ids
Names(n, key, ids) ==
    /\ ~n.metadata.null
    /\ MetaGet(n.metadata, key) \in ids

\* the review ids handed out so far
HandedOut == {ReviewPool[i] : i \in 1..nextReview}

\* C24: every REVIEW_LIKE, REVIEW_REPLY and PRODUCT_COMMENT notification has
\* metadata with the reviewId and the productId of the comment it is about (a
\* REVIEW_REPLY also that comment's parentId), and every PRODUCT_LIKE and
\* PRODUCT_SAVE notification has metadata with the productId of its product.
C24_MetadataNamesOrigin ==
    \A n \in notifications :
       /\ n.type \in RetractedTypes =>
             /\ Names(n, "reviewId", HandedOut)
             /\ Names(n, "productId", ProductIds)
             /\ LET r == MetaGet(n.metadata, "reviewId")
                IN r \in DOMAIN reviews =>
                     /\ MetaGet(n.metadata, "productId") = reviews[r].productId
                     /\ n.type = "REVIEW_REPLY" =>
                           /\ Names(n, "parentId", HandedOut)
                           /\ MetaGet(n.metadata, "parentId") = reviews[r].parentId
                           /\ n.userId = reviews[reviews[r].parentId].userId
       /\ n.type \in {"PRODUCT_LIKE", "PRODUCT_SAVE"} =>
             Names(n, "productId", ProductIds)

\* notifications of all five types are in the store, one of them about a
\* reply to a reply
C24_Witness ==
    /\ \A t \in RetractedTypes \cup {"PRODUCT_LIKE", "PRODUCT_SAVE"} :
          \E n \in notifications : n.type = t
    /\ \E n \in notifications :
          /\ n.type = "REVIEW_REPLY"
          /\ MetaGet(n.metadata, "parentId") # "r1"

(***************************************************************************)
(* SpecToggle: one user toggles the like of one product in calls that may  *)
(* overlap.                                                                *)
(***************************************************************************)
\* toggleReaction calls of one behaviour of SpecToggle
MaxToggles == 3

NextToggle ==
    \/ Len(calls) < MaxToggles /\ StartToggle("p1", "u1")
    \/ \E c \in DOMAIN calls :
          \/ ToggleFind(c)
          \/ ToggleWrite(c)
          \/ ToggleNotify(c)
          \/ ToggleFinish(c)

SpecToggle == Init /\ [][NextToggle]_vars

\* every call that was started has returned or thrown
AllReturned == \A c \in DOMAIN calls : calls[c].pc = "done"

\* C25: toggles of one user on one product are serialized: when the calls
\* have ended, the state is one that the calls run one after the other would
\* leave. Every call completed without error, the reaction row is there iff
\* an odd number of calls toggled the initially absent row, and the admins'
\* PRODUCT_LIKE notifications exist iff the row exists.
C25_TogglesSerialize ==
    AllReturned =>
       LET row == Reaction("p1", "u1")
           liked == {n \in notifications : n.type = "PRODUCT_LIKE"}
       IN /\ \A c \in DOMAIN calls : calls[c].status = "ok"
          /\ row \in productReaction <=> Len(calls) % 2 = 1
          /\ liked # {} <=> row \in productReaction

\* C26: with calls that run one at a time, the cache has no effect on what is
\* read: after any sequence of create, markAsRead, delete, deleteByMetadata,
\* findByUser and getUnreadCount, findByUser and getUnreadCount return what
\* they would return from the store alone.
C26_CacheIsTransparent ==
    \A u \in StoreUsers :
       /\ getUnreadCountResult(notifications, cache, u) = UnreadOf(notifications, u)
       /\ \A p \in Pages, l \in Limits :
             findByUserResult(notifications, cache, u, p, l)
                = ListingOf(notifications, u, p, l)

\* a listing and a count were cached again after rows were read and removed
C26_Witness ==
    /\ last.op \in {"findByUser", "getUnreadCount"}
    /\ \E k \in DOMAIN cache.list :
          /\ Len(cache.list[k].data) = 1
          /\ cache.list[k].data[1].isRead
          /\ cache.list[k].data[1].id > 1
    /\ \E u \in DOMAIN cache.unread : cache.unread[u] = 0
    /\ Cardinality(notifications) = 1

\* userSockets holds, per user, the connected sockets whose token verified
PresenceIsExact ==
    /\ \A u \in DOMAIN userSockets :
          /\ userSockets[u] # {}
          /\ userSockets[u] = LiveSocketsOf(u)
    /\ \A s \in Sockets :
          sockets[s].connected /\ sockets[s].userId # ""
             => sockets[s].userId \in DOMAIN userSockets
    /\ \A s \in Sockets :
          ~sockets[s].connected \/ sockets[s].userId = ""
             => \A u \in DOMAIN userSockets : s \notin userSockets[u]

\* a socket without a user id connects or disconnects
AnonymousStep ==
    /\ last'.op \in {"handleConnection", "handleDisconnect"}
    /\ last'.userId = ""
    /\ sockets' # sockets

\* C27: after any sequence of handleConnection and handleDisconnect,
\* userSockets holds for each user exactly the sockets that connected with a
\* valid token for that user and have not disconnected, and no key maps to an
\* empty set; a socket whose token is missing or invalid is never added, and
\* its disconnect changes nothing.
C27_PresenceIsExact ==
    /\ []PresenceIsExact
    /\ [][AnonymousStep => userSockets' = userSockets]_vars

\* a user with two sockets lost one of them, and a socket that connected with
\* a bad token disconnected
C27_Witness ==
    /\ last.op = "handleDisconnect"
    /\ last.userId = ""
    /\ \E u \in DOMAIN userSockets : Cardinality(userSockets[u]) = 1
    /\ \E v \in DOMAIN userSockets : Cardinality(userSockets[v]) = 2
    /\ \E s \in Sockets : ~sockets[s].connected
    /\ Cardinality(DOMAIN userSockets) = 2

\* the row of rows with the id of n, as a set
SameId(rows, n) == {m \in rows : m.id = n.id}

\* n is as it was, but for a read flag that went from false to true
OnlyRead(n, m) ==
    /\ m.userId = n.userId
    /\ m.type = n.type
    /\ m.title = n.title
    /\ m.content = n.content
    /\ m.metadata = n.metadata
    /\ m.createdAt = n.createdAt
    /\ n.isRead => m.isRead

\* C28: a notification's owner, type, title, content and metadata never
\* change and its read flag only goes from false to true; it leaves the store
\* only through delete by id by its owner or through deleteByMetadata; and
\* markAsRead and delete by user U leave the notifications of every other
\* user as they were.
C28_OnlyReadFlagAndOwnDeletes ==
    [][/\ \A n \in notifications :
             /\ \A m \in SameId(notifications', n) : OnlyRead(n, m)
             /\ SameId(notifications', n) = {} =>
                   \/ /\ last'.op = "delete"
                      /\ last'.userId = n.userId
                      /\ last'.id = n.id
                   \/ /\ last'.op = "deleteByMetadata"
                      /\ last'.type = n.type
       /\ last'.op \in {"markAsRead", "delete"} =>
             {n \in notifications' : n.userId # last'.userId}
                = {n \in notifications : n.userId # last'.userId}
    ]_vars

\* the owner marked a notification that was already read, next to an unread
\* one of another user
C28_Witness ==
    /\ last.op = "markAsRead"
    /\ last.status = "ok"
    /\ last.id # NoId
    /\ last.result = <<0>>
    /\ \E n \in notifications : n.id = last.id /\ n.isRead
    /\ \E n \in notifications : n.userId # last.userId /\ ~n.isRead

(***************************************************************************)
(* SpecDetect: the detections of one user within one day, some of them in  *)
(* calls that overlap.                                                     *)
(***************************************************************************)
\* logDetection calls of one behaviour of SpecDetect that may overlap
MaxOverlap == 2

DetectUser == "u1"

\* no call is between its first and its last statement
NoneInFlight == \A c \in DOMAIN calls : calls[c].pc = "done"

NextDetect ==
    \/ /\ NoneInFlight
       /\ devToolsLog[DetectUser] < MaxDetections
       /\ LogDetection(DetectUser)
    \/ /\ Len(calls) < MaxOverlap
       /\ devToolsLog[DetectUser] + Len(calls) < MaxDetections
       /\ StartDetect(DetectUser)
    \/ \E c \in DOMAIN calls :
          \/ DetectFind(c)
          \/ DetectLog(c)
          \/ DetectCount(c)
          \/ DetectAct(c)

SpecDetect == Init /\ [][NextDetect]_vars

\* the notifications with this title that userId holds
Titled(userId, title) ==
    {n \in notifications : n.userId = userId /\ n.title = title}

\* C29: with logDetection calls of one user that overlap, the warning is not
\* lost: once every call has completed and the count of the day is 10 or
\* more, the user holds exactly one WARNING notification and every admin
\* exactly one SYSTEM notification about the warning.
C29_WarningIsNotLost ==
    NoneInFlight /\ devToolsLog[DetectUser] >= WARNING_THRESHOLD =>
       /\ Cardinality(Titled(DetectUser, "securityWarning")) = 1
       /\ \A a \in AdminIds : Cardinality(Titled(a, "userWarned")) = 1

\* the accountBanned events among effs
BannedEvents(effs) ==
    {i \in 1..Len(effs) : effs[i].kind = "emit" /\ effs[i].event = "accountBanned"}

\* C30: with logDetection calls of one user that overlap, the lock fires at
\* most once: never two ACCOUNT_LOCKED notifications, two lock notifications
\* of one admin or two accountBanned events for the user within the day.
C30_LockFiresOnce ==
    /\ Cardinality(Titled(DetectUser, "accountLocked")) <= 1
    /\ \A a \in AdminIds : Cardinality(Titled(a, "userLocked")) <= 1
    /\ Cardinality(BannedEvents(effects)) <= 1

(***************************************************************************)
(* SpecDay: the detections of one user over several days.                  *)
(***************************************************************************)
\* detection-log entries of one user in one behaviour of SpecDay
MaxLogEntries == 20
NextDay ==
    \/ \E u \in {DetectUser, NoUser} :
          /\ olderLog[DetectUser] + devToolsLog[DetectUser] < MaxLogEntries
          /\ LogDetection(u)
    \/ Midnight
    \/ userStatus[DetectUser] = "BANNED" /\ UnlockUser(DetectUser)

SpecDay == Init /\ [][NextDay]_vars

\* logDetection of the user got as far as its count
Counted ==
    /\ last'.op = "logDetection"
    /\ last'.userId = DetectUser
    /\ last'.status = "ok"

\* C31: the count that logDetection compares with the thresholds is the
\* number of the user's log entries created since today's local midnight, the
\* new entry included: entries of earlier days never contribute to a warning
\* or a lock, and the first detection after midnight counts 1.
C31_CountCoversToday ==
    [][Counted =>
         LET todayCount == last'.result.todayCount
         IN /\ todayCount = devToolsLog[DetectUser] + 1
            /\ olderLog' = olderLog
            /\ last.op = "midnight" => todayCount = 1
            /\ (\E n \in Added : n.type = "WARNING")
                  <=> todayCount = WARNING_THRESHOLD
            /\ (\E n \in Added : n.type = "ACCOUNT_LOCKED")
                  <=> todayCount >= LOCK_THRESHOLD
    ]_vars

\* the tenth detection of a day brought the only warning, after earlier days
\* that together held ten or more entries and none of them ten
C31_Witness ==
    /\ last.op = "logDetection"
    /\ last.result = [todayCount |-> WARNING_THRESHOLD]
    /\ olderLog[DetectUser] >= WARNING_THRESHOLD
    /\ Cardinality({n \in notifications : n.type = "WARNING"}) = 1

\* row is a reply to a comment of somebody else
ReplyToOther(row) ==
    /\ row.parentId # NoParent
    /\ row.parentId \in DOMAIN reviews
    /\ reviews[row.parentId].userId # row.userId

\* ReviewService.create stored a reply to a comment of somebody else
RepliedToOther ==
    /\ last'.op = "createReview"
    /\ last'.status = "ok"
    /\ ReplyToOther(last'.result)

\* ReviewService.delete removed the reply that the call before it created
DeletedThatReply ==
    /\ last.op = "createReview"
    /\ last.status = "ok"
    /\ ReplyToOther(last.result)
    /\ last'.op = "deleteReview"
    /\ last'.status = "ok"
    /\ last'.filter.reviewId = last.result.id

\* C32: creating a reply and then deleting it is a round trip on the
\* notification store. The reply of X to a comment of O # X creates exactly
\* one REVIEW_REPLY notification for O and one PRODUCT_COMMENT notification
\* per admin, all with metadata.reviewId the reply's id, and deleting the
\* reply removes exactly these and leaves every other notification in place.
C32_ReplyRoundTrip ==
    [][/\ RepliedToOther =>
            LET reply == last'.result
                O == reviews[reply.parentId].userId
            IN /\ notifications \subseteq notifications'
               /\ Naming(notifications, {reply.id}) = {}
               /\ Added = Naming(notifications', {reply.id})
               /\ Cardinality({n \in Added : n.type = "REVIEW_REPLY"}) = 1
               /\ \A n \in Added : n.type = "REVIEW_REPLY" => n.userId = O
               /\ \A a \in AdminIds :
                     Cardinality({n \in Added : /\ n.type = "PRODUCT_COMMENT"
                                                /\ n.userId = a}) = 1
               /\ Cardinality(Added) = 1 + Cardinality(AdminIds)
       /\ DeletedThatReply =>
            /\ Cardinality(Naming(notifications, {last.result.id}))
                  = 1 + Cardinality(AdminIds)
            /\ notifications' =
                  notifications \ Naming(notifications, {last.result.id})
    ]_vars

\* a reply to a comment of somebody else was deleted with its three
\* notifications while notifications of other comments stayed
C32_Witness ==
    /\ last.op = "deleteReview"
    /\ last.status = "ok"
    /\ last.result.parentId # NoParent
    /\ last.result.parentId \in DOMAIN reviews
    /\ reviews[last.result.parentId].userId # last.result.userId
    /\ Cardinality(UNION {Range(effects[i].ids) :
                             i \in {j \in 1..Len(effects) :
                                       effects[j].kind = "remove"}})
          = 1 + Cardinality(AdminIds)
    /\ notifications # {}

(***************************************************************************)
(* SpecCache: readers fill the cache while creates and lock / unlock call  *)
(* delPattern with their own patterns and clear() may reject.              *)
(***************************************************************************)
\* notifications created in one behaviour of SpecCache
MaxCacheNotifs == 2

CacheUsers == {"u1", "u2"}

InitCache == InitBase /\ faults = {"clear"}

NextCache ==
    \/ \E u \in CacheUsers : FindByUser(u, 1, 1)
    \/ \E u \in CacheUsers : GetUnreadCount(u)
    \/ \E u \in CacheUsers :
          /\ nextId <= MaxCacheNotifs
          /\ Create(Dto(u, "ADMIN_MESSAGE", "hello", <<"hi">>, NullMeta))
    \/ \E u \in CacheUsers : LockUser(u)
    \/ \E u \in CacheUsers : UnlockUser(u)

SpecCache == InitCache /\ [][NextCache]_vars

\* UserService.invalidateCache ran delPattern("users:list:*")
ClearedByUsers == last'.op \in {"lockUser", "unlockUser"}

\* C33: delPattern removes every cache entry whatever its pattern and never
\* propagates an error: when clear() fails the cache is left as it was and
\* the caller continues.
C33_DelPatternClearsAll ==
    [][/\ ClearedByUsers =>
            /\ last'.status # "CacheError"
            /\ userStatus'[last'.userId] =
                  (IF last'.op = "lockUser" THEN "BANNED" ELSE "NORMAL")
            /\ cache' = (IF last'.result.cleared THEN EmptyCache ELSE cache)
       /\ last'.op = "create" =>
            /\ last'.status # "CacheError"
            /\ Cardinality(Added) = 1
            /\ \E i \in 1..Len(effects') : effects'[i].kind = "emit"
            /\ cache' \in {EmptyCache, delUnread(cache, last'.userId)}
    ]_vars

\* clear() rejected inside lockUser while notification entries were cached:
\* they are still cached and the lock went through
C33_Witness ==
    /\ last.op = "lockUser"
    /\ ~last.result.cleared
    /\ userStatus[last.userId] = "BANNED"
    /\ DOMAIN cache.list # {}
    /\ DOMAIN cache.unread # {}

(***************************************************************************)
(* SpecExcerpt: comments and replies of several lengths, and reactions to  *)
(* them; every notifier interpolates an excerpt of the comment.            *)
(***************************************************************************)
\* notifications created in one behaviour of SpecExcerpt
MaxExcerptNotifs == 5

\* the lengths of the comments written
ExcerptLengths == {2, 49, 50, 51, 60}

Alphabet == <<"a", "b", "c", "d", "e", "f", "g">>

\* a comment of n characters
Text(n) == [i \in 1..n |-> Alphabet[((i - 1) % Len(Alphabet)) + 1]]

NextExcerpt ==
    \/ \E parentId \in {NoParent, "r1"}, n \in ExcerptLengths :
          /\ nextReview < Len(ReviewPool)
          /\ nextId + Len(getAdminIds) <= MaxExcerptNotifs
          /\ CreateReview("p1", parentId, Text(n), "u2")
    \/ \E r \in DOMAIN reviews, isLike \in BOOLEAN :
          /\ nextId <= MaxExcerptNotifs
          /\ LikeReview(r, "u1", isLike)

SpecExcerpt == Init /\ [][NextExcerpt]_vars

\* the excerpt at the end of the content of a notification
ExcerptOf(n) == n.content[Len(n.content)]

\* C34: the excerpt in the content of a reply, comment-reaction or
\* product-comment notification is the source comment truncated to 50
\* characters with an ellipsis: the first 50 characters followed by the
\* ellipsis when the comment is longer than 50 characters, the comment in
\* full when it has at most 50.
C34_ExcerptIsTruncation ==
    \A n \in notifications :
        n.type \in {"REVIEW_REPLY", "REVIEW_LIKE", "PRODUCT_COMMENT"} =>
            LET source == reviews[n.metadata.kv.reviewId].content
            IN ExcerptOf(n) = IF Len(source) > 50
                              THEN SubSeq(source, 1, 50) \o <<"...">>
                              ELSE source

(***************************************************************************)
(* SpecRooms: sockets connect with good, missing, malformed and forged     *)
(* tokens, join and leave product rooms under names of their choice, while *)
(* notifications are pushed and retracted and accounts are locked.         *)
(***************************************************************************)
\* notifications created in one behaviour of SpecRooms
MaxRoomNotifs == 1

RoomSockets == {1, 2}

\* a token that names the user but that verify() rejects
ForgedToken(userId) == [given |-> TRUE, valid |-> FALSE, sub |-> userId]

RoomTokens == {NoToken, BadToken, ForgedToken("u1"), TokenOf("u1"), TokenOf("u2")}

\* the product ids a client sends: a product, and the id of a user
RoomNames == {"p1", "u1"}

NextRooms ==
    \/ \E s \in RoomSockets, token \in RoomTokens : HandleConnection(s, token)
    \/ \E s \in RoomSockets : HandleDisconnect(s)
    \/ \E s \in RoomSockets, p \in RoomNames : HandleJoinProduct(s, p)
    \/ \E s \in RoomSockets, p \in RoomNames : HandleLeaveProduct(s, p)
    \/ /\ nextId <= MaxRoomNotifs
       /\ Create(Dto("u1", "PRODUCT_LIKE", "title", <<"content">>,
                     Meta([productId |-> "p1"])))
    \/ DeleteByMetadata("PRODUCT_LIKE", [productId |-> "p1"])
    \/ LockUser("u1")

SpecRooms == Init /\ [][NextRooms]_vars

UserEvents ==
    {"notification", "notificationDeleted", "unreadCountUpdate", "accountBanned"}

\* the events for users among what socket s received
UserEventsAt(s) == SelectSeq(received[s], LAMBDA e : e.event \in UserEvents)

\* C35: a socket is in the room user:U exactly when it is recorded in
\* userSockets[U], and only after its handshake token verified as U; a socket
\* that connected with no token or an invalid one is in no user room and
\* receives no notification, notificationDeleted, unreadCountUpdate or
\* accountBanned event.
C35_UserRoomsNeedVerifiedToken ==
    /\ \A s \in Sockets, u \in UserIds :
          /\ UserRoom(u) \in sockets[s].rooms <=> s \in SocketsOf(userSockets, u)
          /\ UserRoom(u) \in sockets[s].rooms =>
                sockets[s].connected /\ sockets[s].userId = u
    /\ \A s \in Sockets :
          /\ sockets[s].userId = "" =>
                /\ \A room \in sockets[s].rooms : room[1] # "user"
                /\ UserEventsAt(s) = <<>>
          /\ \A i \in 1..Len(received[s]) :
                received[s][i].event \in UserEvents =>
                   received[s][i].room = UserRoom(sockets[s].userId)

\* u1 was locked: the socket that verified as u1 got accountBanned, the
\* socket with the forged token, which sits in the room product:u1, got
\* nothing
C35_Witness ==
    /\ last.op = "lockUser"
    /\ \E s \in Sockets :
          /\ sockets[s].userId = "u1"
          /\ Len(UserEventsAt(s)) = 1
    /\ \E s \in Sockets :
          /\ sockets[s].connected
          /\ sockets[s].userId = ""
          /\ ProductRoom("u1") \in sockets[s].rooms
          /\ received[s] = <<>>

\* the notifications of rows that the user owns
OwnedBy(rows, userId) == {n \in rows : n.userId = userId}

\* what findByUser(u, ...) and getUnreadCount(u) return in a state
ReadsOf(rows, c, userId) ==
    [unread |-> getUnreadCountResult(rows, c, userId),
     lists |-> [k \in Pages \X Limits |->
                  findByUserResult(rows, c, userId, k[1], k[2])]]

\* C36: notification reads are isolated per user: what findByUser(U, ...) and
\* getUnreadCount(U) return, from the store or from the cache, depends on the
\* notifications of U only, and a step that leaves the notifications of U as
\* they are leaves these results as they are, whatever other users own,
\* read, mark or delete.
C36_ReadsAreIsolated ==
    /\ [](\A u \in StoreUsers :
            ReadsOf(notifications, cache, u)
               = ReadsOf(OwnedBy(notifications, u), EmptyCache, u))
    /\ [][\A u \in StoreUsers :
            OwnedBy(notifications', u) = OwnedBy(notifications, u) =>
               ReadsOf(notifications', cache', u) = ReadsOf(notifications, cache, u)
        ]_vars

\* a user read a listing and a count while another user owns notifications,
\* one of them read, and has a listing and a count in the cache
C36_Witness ==
    /\ last.op \in {"findByUser", "getUnreadCount"}
    /\ \E v \in StoreUsers \ {last.userId} :
          /\ \E n \in OwnedBy(notifications, v) : n.isRead
          /\ HasCached(cache, v)
    /\ OwnedBy(notifications, last.userId) # {}
    /\ HasCached(cache, last.userId)

(***************************************************************************)
(* SpecSelf: two users react and reply to the comments of each other and   *)
(* to their own.                                                           *)
(***************************************************************************)
\* notifications created in one behaviour of SpecSelf
MaxSelfNotifs == 5

NextSelf ==
    \/ \E parentId \in {"r1", "r2"}, u \in MemberIds :
          /\ nextReview < Len(ReviewPool)
          /\ nextId + Len(getAdminIds) <= MaxSelfNotifs
          /\ CreateReview("p1", parentId, <<"o", "k">>, u)
    \/ \E r \in DOMAIN reviews, u \in MemberIds, isLike \in BOOLEAN :
          /\ nextId <= MaxSelfNotifs
          /\ LikeReview(r, u, isLike)

SpecSelf == Init /\ [][NextSelf]_vars

\* likeReview ran for the owner of the comment
SelfReaction ==
    /\ last'.op = "likeReview"
    /\ last'.status = "ok"
    /\ reviews[last'.filter.reviewId].userId = last'.userId

\* C37: no user is notified of their own action on their own comment: no
\* REVIEW_LIKE notification has the user who reacted as its recipient, no
\* REVIEW_REPLY notification has the author of the reply as its recipient,
\* and a reaction of the owner to their own comment, set, switched or taken
\* back, deletes no notification.
C37_NoSelfNotification ==
    /\ [](\A n \in notifications :
            /\ n.type \in {"REVIEW_LIKE", "REVIEW_REPLY"} =>
                  n.content[1] # Username(n.userId)
            /\ n.type = "REVIEW_REPLY" =>
                  reviews[n.metadata.kv.reviewId].userId # n.userId)
    /\ [][SelfReaction => notifications' = notifications]_vars

\* the owner of a comment took back their reaction to it while the
\* notification of the reaction of another user to the same comment stays
C37_Witness ==
    /\ last.op = "likeReview"
    /\ last.status = "ok"
    /\ last.existing
    /\ reviews[last.filter.reviewId].userId = last.userId
    /\ LikeKey(last.filter.reviewId, last.userId) \notin DOMAIN reviewLike
    /\ \E n \in notifications :
          /\ n.type = "REVIEW_LIKE"
          /\ n.userId = last.userId
          /\ n.metadata.kv.reviewId = last.filter.reviewId
    /\ \E n \in notifications : n.type = "PRODUCT_COMMENT"

(***************************************************************************)
(* ProductService: the Excel import.  importExcel creates the job and      *)
(* starts processImportJob, which runs on its own from one await to the    *)
(* next.  A sheet is given by its number of rows and the number of rows    *)
(* without a name or an image URL; a job carries, next to the fields of    *)
(* ImportJob, the locals of processImportJob and the statuses assigned.    *)
(***************************************************************************)
\* the ids that uuidv4() hands out, in order
JobPool == <<"j1", "j2">>

UPLOAD_BATCH_SIZE == 50
INSERT_BATCH_SIZE == 100

\* job.status = status
Assign(job, status) ==
    [job EXCEPT !.status = status, !.history = Append(@, status)]

\* const job: ImportJob = { jobId, status: 'pending', total, ... }
NewJob(jobId, total) ==
    [jobId |-> jobId, status |-> "pending", total |-> total, processed |-> 0,
     successful |-> 0, failed |-> 0, error |-> "", createdProducts |-> 0,
     validated |-> 0, uploaded |-> 0, created |-> 0, upAt |-> 0, inAt |-> 0,
     pc |-> "start", history |-> <<"pending">>]

\* a validation that counts a refused row as failed only
validateRows_FailedOnly(job, invalid) ==
    [job EXCEPT !.failed = @ + invalid, !.validated = job.total - invalid]

\* for (const row of rawData): a row without name or imageUrl counts as
\* failed and processed, the others go to validatedData
validateRows(job, invalid) ==
    [job EXCEPT !.failed = @ + invalid, !.processed = @ + invalid,
                !.validated = job.total - invalid]

\* the statements up to the next await: the head of the upload loop, of the
\* insert loop, or job.status = 'completed' before invalidateCache
toNextAwait(job) ==
    IF job.upAt < job.validated THEN [job EXCEPT !.pc = "upload"]
    ELSE IF job.inAt < job.uploaded THEN [job EXCEPT !.pc = "insert"]
    ELSE [Assign(job, "completed") EXCEPT
            !.createdProducts = job.created, !.pc = "invalidate"]

\* the ImportJobStatusDto of a job
mapJobToDto(job) ==
    [jobId |-> job.jobId, status |-> job.status, total |-> job.total,
     processed |-> job.processed, successful |-> job.successful,
     failed |-> job.failed, error |-> job.error,
     products |-> IF job.status = "completed" THEN job.createdProducts ELSE 0]

ImportUnchanged ==
    UNCHANGED <<notifications, nextId, userStatus, faults, sockets, userSockets,
                calls, productReaction, reviewLike, devToolsLog, savedProduct,
                reviews, nextReview, olderLog>>

\* importExcel(file, userId): an empty sheet is refused; otherwise the job is
\* stored as pending and processImportJob runs to its first await before the
\* dto is returned
ImportExcel(total, invalid, userId) ==
    IF total = 0
    THEN /\ last' = Done("importExcel", userId, "BadRequest")
         /\ Quiet
         /\ UNCHANGED <<cache, importJobs>>
         /\ ImportUnchanged
    ELSE LET jobId == JobPool[Cardinality(DOMAIN importJobs) + 1]
             job == toNextAwait(validateRows(
                       Assign(NewJob(jobId, total), "processing"), invalid))
         IN /\ importJobs' = Put(importJobs, jobId, job)
            /\ last' = [Done("importExcel", userId, "ok") EXCEPT
                           !.filter = [jobId |-> jobId],
                           !.result = mapJobToDto(job)]
            /\ Quiet
            /\ UNCHANGED cache
            /\ ImportUnchanged

\* getImportStatus(jobId)
GetImportStatus(jobId) ==
    /\ last' = IF jobId \in DOMAIN importJobs
               THEN [Done("getImportStatus", "", "ok") EXCEPT
                        !.filter = [jobId |-> jobId],
                        !.result = mapJobToDto(importJobs[jobId])]
               ELSE [Done("getImportStatus", "", "NotFound") EXCEPT
                        !.filter = [jobId |-> jobId]]
    /\ Quiet
    /\ UNCHANGED <<cache, importJobs>>
    /\ ImportUnchanged

\* await Promise.allSettled(batch.map(upload)) and the forEach over its
\* results: ok of the uploads of the batch succeeded
UploadBatch(jobId, ok) ==
    /\ jobId \in DOMAIN importJobs
    /\ importJobs[jobId].pc = "upload"
    /\ LET job == importJobs[jobId]
           batch == Min(UPLOAD_BATCH_SIZE, job.validated - job.upAt)
       IN /\ ok \in 0..batch
          /\ importJobs' =
                [importJobs EXCEPT ![jobId] =
                    toNextAwait([job EXCEPT
                                   !.successful = @ + ok,
                                   !.failed = @ + (batch - ok),
                                   !.processed = @ + batch,
                                   !.uploaded = @ + ok,
                                   !.upAt = @ + UPLOAD_BATCH_SIZE])]
    /\ last' = [Done("uploadBatch", "", "ok") EXCEPT
                   !.filter = [jobId |-> jobId]]
    /\ Quiet
    /\ UNCHANGED cache
    /\ ImportUnchanged

\* await prisma.product.createMany and await prisma.product.findMany of one
\* insert batch; when either rejects, processImportJob rejects and the catch
\* of importExcel sets the job to failed
InsertBatch(jobId) ==
    /\ jobId \in DOMAIN importJobs
    /\ importJobs[jobId].pc = "insert"
    /\ \E stored \in StoreOutcomes :
          LET job == importJobs[jobId]
              batch == Min(INSERT_BATCH_SIZE, job.uploaded - job.inAt)
          IN importJobs' =
                [importJobs EXCEPT ![jobId] =
                    IF stored
                    THEN toNextAwait([job EXCEPT
                                        !.created = @ + batch,
                                        !.inAt = @ + INSERT_BATCH_SIZE])
                    ELSE [Assign(job, "failed") EXCEPT
                            !.error = "PrismaError", !.pc = "done"]]
    /\ last' = [Done("insertBatch", "", "ok") EXCEPT
                   !.filter = [jobId |-> jobId]]
    /\ Quiet
    /\ UNCHANGED cache
    /\ ImportUnchanged

\* await this.invalidateCache() of a completed job
ImportInvalidate(jobId) ==
    /\ jobId \in DOMAIN importJobs
    /\ importJobs[jobId].pc = "invalidate"
    /\ \E clearOk \in ClearOutcomes :
          cache' = delPattern(cache, <<"products">>, clearOk)
    /\ importJobs' = [importJobs EXCEPT ![jobId].pc = "done"]
    /\ last' = [Done("invalidateCache", "", "ok") EXCEPT
                   !.filter = [jobId |-> jobId]]
    /\ Quiet
    /\ ImportUnchanged

(***************************************************************************)
(* SpecImport: sheets of several sizes are imported, the jobs run side by  *)
(* side, uploads fail and prisma may reject.                               *)
(***************************************************************************)
\* the numbers of rows of the sheets
SheetRows == {0, 1, 60, 101}

\* the numbers of rows without a name or an image URL
InvalidRows(total) == {0, 1, total} \cap 0..total

\* the numbers of uploads of a batch that succeed
UploadCounts == {0, 1, 10, UPLOAD_BATCH_SIZE}

NextImport ==
    \/ \E total \in SheetRows :
          \E invalid \in InvalidRows(total) :
             /\ Cardinality(DOMAIN importJobs) < Len(JobPool)
             /\ ImportExcel(total, invalid, "admin1")
    \/ \E jobId \in Range(JobPool) : GetImportStatus(jobId)
    \/ \E jobId \in DOMAIN importJobs, ok \in UploadCounts :
          UploadBatch(jobId, ok)
    \/ \E jobId \in DOMAIN importJobs : InsertBatch(jobId)
    \/ \E jobId \in DOMAIN importJobs : ImportInvalidate(jobId)

SpecImport == InitFaulty /\ [][NextImport]_vars

\* the statuses a job may have been given, in order
StatusPaths ==
    {<<"pending", "processing", "completed">>,
     <<"pending", "processing", "failed">>}

Terminal == {"completed", "failed"}

\* the counters and the status of a job, or of its dto, fit together
Consistent(job) ==
    /\ job.processed = job.successful + job.failed
    /\ job.processed <= job.total
    /\ job.status = "completed" => job.processed = job.total

\* C38: every import job satisfies, at every point of its processing,
\* processed = successful + failed and processed <= total; its status moves
\* only pending -> processing -> completed or failed, a completed job has
\* processed = total, and completed and failed are terminal.
C38_ImportJobIsConsistent ==
    /\ [](/\ \A j \in DOMAIN importJobs :
               LET job == importJobs[j]
               IN /\ Consistent(job)
                  /\ \E path \in StatusPaths : IsPrefix(job.history, path)
                  /\ job.status = job.history[Len(job.history)]
           /\ last.op \in {"importExcel", "getImportStatus"} /\ last.status = "ok"
                 => Consistent(last.result))
    /\ [][\A j \in DOMAIN importJobs :
            LET job == importJobs[j]
            IN /\ j \in DOMAIN importJobs'
               /\ IsPrefix(job.history, importJobs'[j].history)
               /\ job.status \in Terminal =>
                     mapJobToDto(importJobs'[j]) = mapJobToDto(job)
        ]_vars

\* a sheet of 101 rows went through three upload batches and two insert
\* batches and is completed, another job failed in its insert, and the
\* status of a job was read
C38_Witness ==
    /\ last.op = "getImportStatus"
    /\ last.status = "ok"
    /\ \E j \in DOMAIN importJobs :
          /\ importJobs[j].status = "completed"
          /\ importJobs[j].total = 101
          /\ importJobs[j].createdProducts = 101
          /\ importJobs[j].pc = "done"
    /\ \E j \in DOMAIN importJobs :
          /\ importJobs[j].status = "failed"
          /\ importJobs[j].failed > 0
          /\ importJobs[j].successful > 0
====
